---- MODULE Spec2Model ----
(***************************************************************************)
(* A model of utcnow (src/utcnow/__init__.py): the TimeSynchronizer state  *)
(* machine (the main singleton and its child handles), the "now" reads     *)
(* that go through it, and timediff; and the conversions of values and     *)
(* modifiers (_init_modifier, _transform_value, _unixtime_to_protobuf)     *)
(* behind rfc3339_timestamp, as_datetime, as_unixtime and as_protobuf.     *)
(*                                                                         *)
(* Instants and durations are records [s |-> seconds, n |-> nanoseconds]   *)
(* with 0 <= n < NsPerSec, the sign carried by s. Python's integers and    *)
(* datetime/timedelta values are exact at this resolution; float rounding  *)
(* below one microsecond is modelled by the explicit round-to-microsecond  *)
(* steps the code performs. Texts are sequences of one-character strings.  *)
(***************************************************************************)
EXTENDS Integers, Sequences, FiniteSets, TLC

VARIABLES clock, main, child, lastOp, firstRead, req, res, memo, thread

\* The synchronizer, its clock and the record of the operations on it.
syncVars == <<clock, main, child, lastOp, firstRead>>

\* A call of a conversion function and what it returned.
convVars == <<req, res>>

\* The caches of the conversions, and the threads that call timediff.
runVars == <<memo, thread>>

vars == <<clock, main, child, lastOp, firstRead, req, res, memo, thread>>

(***************************************************************************)
(* Bounds of the model.                                                    *)
(***************************************************************************)
MaxChildren == 2
MaxTicks == 1

(***************************************************************************)
(* Program constants.                                                      *)
(***************************************************************************)
NsPerSec == 1000000000
NsPerUs == 1000

\* The host clock advances in steps that are no whole number of microseconds.
TickNs == {700}

(***************************************************************************)
(* Time arithmetic.                                                        *)
(***************************************************************************)
T(sec, ns) == [s |-> sec, n |-> ns]

TNorm(sec, ns) == [s |-> sec + (ns \div NsPerSec), n |-> ns % NsPerSec]

TAdd(a, b) == TNorm(a.s + b.s, a.n + b.n)

TSub(a, b) == TNorm(a.s - b.s, a.n - b.n)

Seconds(k) == T(k, 0)

\* Instant a is not after instant b.
NotAfter(a, b) == a.s < b.s \/ (a.s = b.s /\ a.n <= b.n)

\* No instant: the value of a field that was never assigned.
Unset == [s |-> 0, n |-> -1]

\* A raised exception.
Raise(e) == [kind |-> e]

ValueError == Raise("ValueError")

OverflowError == Raise("OverflowError")

\* Python's round(): to the nearest multiple, ties to the even one.
RoundHalfEven(x, d) ==
    LET q == x \div d
        r == x % d
    IN  IF 2 * r < d THEN q
        ELSE IF 2 * r > d THEN q + 1
        ELSE IF q % 2 = 0 THEN q ELSE q + 1

\* int(round(ns * 1e-3)) * 1_000
RoundUs(t) == TNorm(t.s, RoundHalfEven(t.n, NsPerUs) * NsPerUs)

\* The microsecond an instant falls in (rounding toward minus infinity).
FloorUs(t) == T(t.s, t.n - (t.n % NsPerUs))

\* int(round(time_.time_ns() * 1e-3)) * 1_000
TimeNsNow(clk) == RoundUs(clk)

\* datetime_.datetime.fromtimestamp(round(time_ns * 1e-9, 6), tz=UTC)
DatetimeFromTimeNs(tns) == RoundUs(tns)

\* datetime_.datetime.now(UTC): the host clock cut to whole microseconds.
DatetimeNow(clk) == FloorUs(clk)

\* int(round(dt.timestamp() * 1e6)) * 1_000
TimeNsFromDatetime(dt) == RoundUs(dt)

\* dt + timedelta(seconds=modifier), the modifier in whole seconds.
PlusTimedelta(dt, modifier) == TAdd(dt, Seconds(modifier))

(***************************************************************************)
(* Inputs.                                                                 *)
(***************************************************************************)
Main == 0
Children == 1 .. MaxChildren
Handles == {Main} \cup Children
None == 0

NOW == [tag |-> "now", t |-> Unset]

\* A text that matches none of the accepted input formats.
BadValue == [tag |-> "bad", t |-> Unset]

\* An explicit epoch value with a fraction finer than a microsecond (as
\* 1695694079.9417229 in test_synchronizer_precise_unixtime).
Timestamps == {T(200, 941722900)}

Values == {NOW, BadValue} \cup {[tag |-> "ts", t |-> t] : t \in Timestamps}

\* No modifier and "+15m", as _init_modifier returns them (seconds).
Modifiers == {0, 900}

\* "now" and "+1h" as a timediff endpoint.
EndpointModifiers == {0, 3600}

\* What as_datetime and timediff take as a "now"-valued or explicit endpoint:
\* "now" (m = 0), a text such as "+1h" that _init_modifier turns into NOW plus
\* a modifier, or an explicit timestamp.
Endpoint(tag, m, t) == [tag |-> tag, m |-> m, t |-> t]

\* The "now"-valued endpoints timediff is called with.
Endpoints == {Endpoint("now", m, Unset) : m \in EndpointModifiers}

\* An explicit timestamp as an endpoint.
At(t) == Endpoint("ts", 0, t)

NoEndpoint == Endpoint("none", 0, Unset)

\* A text that is no timestamp as an endpoint.
BadEndpoint == Endpoint("bad", 0, Unset)

\* The endpoints of the calls of timediff that raise.
RaisingEndpoints == {Endpoint("now", 0, Unset), BadEndpoint}

Accessors ==
    {"rfc3339_timestamp", "as_datetime", "as_unixtime", "as_protobuf",
     "datetime", "time", "time_ns"}

\* The accessors that take a modifier.
Converters == {"rfc3339_timestamp", "as_datetime", "as_unixtime", "as_protobuf"}

(***************************************************************************)
(* The synchronizer's state.                                               *)
(*   main:  the singleton: _frozen, _controller (a child or None),         *)
(*          _time_ns, _datetime.                                           *)
(*   child: the child handles constructed so far: _frozen, _time_ns,       *)
(*          _datetime, and what it was constructed for: the arguments of   *)
(*          the call and the instant they stood for at that moment.        *)
(***************************************************************************)
NoArgs == [value |-> NOW, modifier |-> 0, instant |-> Unset]

\* The instant the arguments of a construction stand for when the host clock
\* shows clk: the value (the clock, for NOW) in whole microseconds, plus the
\* modifier.
Candidate(value, modifier, clk) ==
    TAdd(RoundUs(IF value.tag = "now" THEN clk ELSE value.t), Seconds(modifier))

NoChild ==
    [made |-> FALSE, frozen |-> FALSE, time_ns |-> Unset, datetime |-> Unset,
     args |-> NoArgs]

\* TimeSynchronizer.__new__ for the first instance: the main synchronizer.
NewMain ==
    [frozen |-> FALSE, controller |-> None, time_ns |-> Unset, datetime |-> Unset]

\* The record of the last operation: what was called, on which handle, the
\* state of that handle (per __repr__) before the call, how it ended, and
\* what it returned; for a read, the host clock at the time; for timediff,
\* its endpoints and by how much the host clock advanced between the
\* evaluations of the two.
OpRecord(op, who, pre, out, m, val, at, b, e, adv) ==
    [op |-> op, who |-> who, pre |-> pre, out |-> out, m |-> m, val |-> val,
     at |-> at, b |-> b, e |-> e, adv |-> adv]

NoOp ==
    OpRecord("none", Main, "main", "ok", 0, Unset, Unset, NoEndpoint, NoEndpoint, 0)

\* No conversion has been called.
NoReq == [fn |-> "none"]

NoRes == [kind |-> "none"]

\* The lru_cache of _transform_value, _timestamp_to_datetime,
\* _timestamp_to_unixtime and _unixtime_to_protobuf: what each holds for an
\* argument, all of them empty at first.
NoMemo ==
    [transform |-> <<>>, datetime |-> <<>>, unixtime |-> <<>>,
     protobuf |-> <<>>]

\* The threads that call timediff, and where one is in its call: pc is the
\* step it takes next, scoped whether it found no scope active, e what
\* as_datetime(end) returned, val and out what the call returned or raised.
Threads == {1, 2}

ThreadAt(pc, scoped, e, val, out) ==
    [pc |-> pc, scoped |-> scoped, e |-> e, val |-> val, out |-> out]

Idle == ThreadAt("idle", FALSE, Unset, Unset, "none")

Init ==
    /\ clock = T(0, 0)
    /\ main = NewMain
    /\ child = [c \in Children |-> NoChild]
    /\ lastOp = NoOp
    /\ firstRead = Unset
    /\ req = NoReq
    /\ res = NoRes
    /\ memo = NoMemo
    /\ thread = [t \in Threads |-> Idle]

\* TimeSynchronizer.__repr__: the state a handle reports.
StatusIn(h, mn, ch) ==
    IF h = Main THEN (IF mn.frozen THEN "main active" ELSE "main")
    ELSE IF ~ch[h].made THEN "none"
    ELSE IF mn.controller # h
         THEN (IF ch[h].frozen THEN "deactivated" ELSE "expired")
    ELSE IF ch[h].frozen /\ mn.frozen THEN "active"
    ELSE "pending"

Status(h) == StatusIn(h, main, child)

Made == {c \in Children : child[c].made}

(***************************************************************************)
(* The "now" reads, each as the code computes it from the singleton mn and *)
(* the host clock clk.                                                     *)
(***************************************************************************)
\* SyncDatetime as it would be if it did not look at _frozen.
SyncDatetimeLive(mn, clk) == DatetimeNow(clk)

\* TimeSynchronizer.datetime
SyncDatetime(mn, clk) == IF mn.frozen THEN mn.datetime ELSE DatetimeNow(clk)

\* TimeSynchronizer.time_ns
SyncTimeNs(mn, clk) == IF mn.frozen THEN mn.time_ns ELSE TimeNsNow(clk)

\* TimeSynchronizer.time: round(... * 1e-9, 6)
SyncTime(mn, clk) ==
    RoundUs(IF mn.frozen THEN mn.time_ns ELSE SyncTimeNs(mn, clk))

\* _timestamp_to_datetime of an explicit epoch value: fromtimestamp and the
\* six-digit isoformat keep whole microseconds.
TimestampToDatetime(t) == RoundUs(t)

\* isoformat(timespec="microseconds"): the text denotes whole microseconds.
IsoFormat(dt) == FloorUs(dt)

\* AsDatetimeNow as it would be if the test of the modifier were inverted.
AsDatetimeNowInverted(m, mn, clk) ==
    IF m # 0 THEN SyncDatetime(mn, clk)
    ELSE PlusTimedelta(SyncDatetime(mn, clk), m)

\* utcnow_.as_datetime(value, modifier) for value NOW.
AsDatetimeNow(m, mn, clk) ==
    IF m = 0 THEN SyncDatetime(mn, clk)
    ELSE PlusTimedelta(SyncDatetime(mn, clk), m)

\* utcnow_.rfc3339_timestamp(value, modifier) for value NOW.
Rfc3339Now(m, mn, clk) == IsoFormat(AsDatetimeNow(m, mn, clk))

\* utcnow_.as_unixtime(value, modifier) for value NOW.
AsUnixtimeNow(m, mn, clk) == TAdd(SyncTime(mn, clk), Seconds(m))

\* utcnow_.as_protobuf(value, modifier) for value NOW: seconds = int(u) cuts
\* toward zero, nanos is the rest in whole microseconds, a negative nanos
\* borrows one second.
AsProtobufNow(m, mn, clk) ==
    LET u == AsUnixtimeNow(m, mn, clk)
        seconds == IF u.s < 0 /\ u.n > 0 THEN u.s + 1 ELSE u.s
        rest == (u.s - seconds) * NsPerSec + u.n
        nanos == RoundHalfEven(rest, NsPerUs) * NsPerUs
    IN  IF nanos < 0 THEN T(seconds - 1, nanos + NsPerSec) ELSE T(seconds, nanos)

\* One "now" read through accessor acc with modifier m.
ReadNow(acc, m, mn, clk) ==
    CASE acc = "rfc3339_timestamp" -> Rfc3339Now(m, mn, clk)
      [] acc = "as_datetime" -> AsDatetimeNow(m, mn, clk)
      [] acc = "as_unixtime" -> AsUnixtimeNow(m, mn, clk)
      [] acc = "as_protobuf" -> AsProtobufNow(m, mn, clk)
      [] acc = "datetime" -> SyncDatetime(mn, clk)
      [] acc = "time" -> SyncTime(mn, clk)
      [] acc = "time_ns" -> SyncTimeNs(mn, clk)

\* utcnow_.as_datetime(x) of a timediff endpoint.
AsDatetime(x, mn, clk) ==
    IF x.tag = "now" THEN AsDatetimeNow(x.m, mn, clk)
    ELSE TimestampToDatetime(x.t)

(***************************************************************************)
(* The synchronizer's handlers, as functions of the state they read. Each  *)
(* returns how the call ends (out) and the state it leaves.                *)
(***************************************************************************)
Outcome(out, mn, ch) == [out |-> out, main |-> mn, child |-> ch]

\* MainEnter as it would be without the test for an active scope.
MainEnterUnguarded(mn, ch, clk) ==
    LET ctl == IF mn.controller # None /\ ~ch[mn.controller].frozen
               THEN None ELSE mn.controller
        tns == IF ctl = None THEN TimeNsNow(clk) ELSE mn.time_ns
        dt == IF ctl = None THEN DatetimeFromTimeNs(tns) ELSE mn.datetime
    IN  Outcome("ok",
                [frozen |-> TRUE, controller |-> ctl, time_ns |-> tns,
                 datetime |-> dt],
                ch)

\* MainEnter as it would be if it kept a child that was never entered as
\* its controller.
MainEnterKeepsPending(mn, ch, clk) ==
    IF mn.frozen THEN Outcome("RuntimeError", mn, ch)
    ELSE IF mn.controller # None /\ ~ch[mn.controller].frozen
    THEN Outcome("ok", [mn EXCEPT !.frozen = TRUE,
                                  !.time_ns = TimeNsNow(clk),
                                  !.datetime = DatetimeFromTimeNs(TimeNsNow(clk))],
                 ch)
    ELSE MainEnterUnguarded(mn, ch, clk)

\* MainEnter as it would be if it sampled the clock only when the
\* synchronizer holds no instant yet.
MainEnterKeepsInstant(mn, ch, clk) ==
    IF mn.frozen THEN Outcome("RuntimeError", mn, ch)
    ELSE IF mn.time_ns # Unset
    THEN Outcome("ok", [mn EXCEPT !.frozen = TRUE, !.controller = None], ch)
    ELSE MainEnterUnguarded(mn, ch, clk)

\* TimeSynchronizer.__enter__ on the main synchronizer.
MainEnter(mn, ch, clk) ==
    IF mn.frozen THEN Outcome("RuntimeError", mn, ch)
    ELSE
        LET ctl == IF mn.controller # None /\ ~ch[mn.controller].frozen
                   THEN None ELSE mn.controller
            tns == IF ctl = None THEN TimeNsNow(clk) ELSE mn.time_ns
            dt == IF ctl = None THEN DatetimeFromTimeNs(tns) ELSE mn.datetime
        IN  Outcome("ok",
                    [frozen |-> TRUE, controller |-> ctl, time_ns |-> tns,
                     datetime |-> dt],
                    ch)

\* ChildEnter as it would be without the test that the child is the one the
\* main synchronizer created last.
ChildEnterAnyChild(c, mn, ch, clk) ==
    IF ch[c].frozen \/ mn.frozen THEN Outcome("RuntimeError", mn, ch)
    ELSE MainEnter([mn EXCEPT !.time_ns = ch[c].time_ns,
                              !.datetime = ch[c].datetime],
                   [ch EXCEPT ![c].frozen = TRUE],
                   clk)

\* ChildEnter as it would be if that test only asked for some child to have
\* been created last.
ChildEnterSomeChild(c, mn, ch, clk) ==
    IF ch[c].frozen \/ mn.frozen THEN Outcome("RuntimeError", mn, ch)
    ELSE IF mn.controller = None THEN Outcome("RuntimeError", mn, ch)
    ELSE MainEnter([mn EXCEPT !.time_ns = ch[c].time_ns,
                              !.datetime = ch[c].datetime],
                   [ch EXCEPT ![c].frozen = TRUE],
                   clk)

\* ChildEnter as it would be if it did not hand its instant to the main
\* synchronizer.
ChildEnterNoCopy(c, mn, ch, clk) ==
    IF ch[c].frozen \/ mn.frozen THEN Outcome("RuntimeError", mn, ch)
    ELSE IF mn.controller # c THEN Outcome("RuntimeError", mn, ch)
    ELSE MainEnter(mn, [ch EXCEPT ![c].frozen = TRUE], clk)

\* TimeSynchronizer.__enter__ on a child.
ChildEnter(c, mn, ch, clk) ==
    IF ch[c].frozen \/ mn.frozen THEN Outcome("RuntimeError", mn, ch)
    ELSE IF mn.controller # c THEN Outcome("RuntimeError", mn, ch)
    ELSE MainEnter([mn EXCEPT !.time_ns = ch[c].time_ns,
                              !.datetime = ch[c].datetime],
                   [ch EXCEPT ![c].frozen = TRUE],
                   clk)

EnterResult(h, mn, ch, clk) ==
    IF h = Main THEN MainEnter(mn, ch, clk) ELSE ChildEnter(h, mn, ch, clk)

\* MainExit as it would be if it left _controller as it is.
MainExitKeepsController(mn) ==
    IF mn.frozen THEN [mn EXCEPT !.frozen = FALSE] ELSE mn

\* TimeSynchronizer.__exit__ on the main synchronizer.
MainExit(mn) ==
    IF mn.frozen THEN [mn EXCEPT !.frozen = FALSE, !.controller = None] ELSE mn

\* TimeSynchronizer.__exit__ on any handle; its arguments (the exception of
\* the body, if any) are not read.
ExitResult(h, mn) ==
    IF h # Main /\ mn.controller = h /\ mn.frozen THEN MainExit(mn)
    ELSE IF h = Main THEN MainExit(mn)
    ELSE mn

\* The child that the next construction creates.
NextChild(ch) == CHOOSE c \in Children :
    /\ ~ch[c].made
    /\ \A d \in Children : d < c => ch[d].made

\* The instant a new child holds, from __call__'s arguments.
NewChild(value, modifier, clk) ==
    LET tns == IF value.tag = "now"
               THEN TAdd(TimeNsNow(clk), RoundUs(Seconds(modifier)))
               ELSE TimeNsFromDatetime(
                        IF modifier = 0 THEN TimestampToDatetime(value.t)
                        ELSE PlusTimedelta(TimestampToDatetime(value.t), modifier))
        dt == IF value.tag = "now" THEN DatetimeFromTimeNs(tns)
              ELSE IF modifier = 0 THEN TimestampToDatetime(value.t)
              ELSE PlusTimedelta(TimestampToDatetime(value.t), modifier)
    IN  [made |-> TRUE, frozen |-> FALSE, time_ns |-> tns, datetime |-> dt,
         args |-> [value |-> value, modifier |-> modifier,
                  instant |-> Candidate(value, modifier, clk)]]

\* CallResult as it would be without the test that the handle is the main
\* synchronizer.
CallResultAnyHandle(h, value, modifier, mn, ch, clk) ==
    IF mn.frozen THEN Outcome("RuntimeError", mn, ch)
    ELSE IF value.tag = "bad"
         THEN Outcome("ValueError", [mn EXCEPT !.controller = None], ch)
    ELSE IF \A c \in Children : ch[c].made THEN Outcome("RuntimeError", mn, ch)
    ELSE LET c == NextChild(ch)
         IN  Outcome("ok",
                     [mn EXCEPT !.controller = c],
                     [ch EXCEPT ![c] = NewChild(value, modifier, clk)])

\* CallResult as it would be if it forgot its controller before the tests
\* that raise RuntimeError.
CallResultForgetsFirst(h, value, modifier, mn, ch, clk) ==
    IF mn.frozen \/ h # Main
    THEN Outcome("RuntimeError", [mn EXCEPT !.controller = None], ch)
    ELSE CallResultAnyHandle(h, value, modifier, mn, ch, clk)

\* TimeSynchronizer.__call__ on any handle.
CallResult(h, value, modifier, mn, ch, clk) ==
    IF mn.frozen THEN Outcome("RuntimeError", mn, ch)
    ELSE IF h # Main THEN Outcome("RuntimeError", mn, ch)
    ELSE IF value.tag = "bad"
         THEN Outcome("ValueError", [mn EXCEPT !.controller = None], ch)
    ELSE LET c == NextChild(ch)
         IN  Outcome("ok",
                     [mn EXCEPT !.controller = c],
                     [ch EXCEPT ![c] = NewChild(value, modifier, clk)])

\* unit.lower() on the unit names the model calls timediff with.
LowerUnit(unit) ==
    CASE unit = "Seconds" -> "seconds"
      [] unit = "W" -> "w"
      [] OTHER -> unit

\* A returned float that is delta seconds times mul and divided by div, and
\* a returned int of T(s, n) units, that is of s * 10^9 + n.
Quotient(delta, mul, div) ==
    [kind |-> "quotient", val |-> delta, mul |-> mul, div |-> div]

Whole(t) == [kind |-> "int", val |-> t]

\* The timedeltas, among those of the model, whose total_seconds() * 1e6 is
\* below the whole number of microseconds in double arithmetic:
\* 0.000249 * 1e6 is 248.99999999999997.
BelowWhole == {T(0, 249000)}

\* int(delta.total_seconds() * 1e6) * 1_000 as a timedelta: int() truncates
\* toward zero.
TruncatedMicroseconds(delta) ==
    CASE delta \in BelowWhole -> TSub(delta, T(0, NsPerUs))
      [] TSub(T(0, 0), delta) \in BelowWhole -> TAdd(delta, T(0, NsPerUs))
      [] OTHER -> delta

\* The tail of timediff: the timedelta delta in the unit named, or the
\* ValueError for a name of no unit.
InUnit(delta, unit) ==
    LET u == LowerUnit(unit)
    IN  CASE u \in {"nanoseconds", "nanosecond", "nsec", "ns", "nanos",
                    "nano", "nanosec"} -> Whole(TruncatedMicroseconds(delta))
          [] u \in {"microseconds", "microsecond", "usec", "us", "micros",
                    "micro", "microsec"} -> Quotient(delta, 1000000, 1)
          [] u \in {"milliseconds", "millisecond", "msec", "ms", "millis",
                    "milli", "millisec"} -> Quotient(delta, 1000, 1)
          [] u \in {"seconds", "second", "sec", "s"} -> Quotient(delta, 1, 1)
          [] u \in {"minutes", "minute", "min", "m"} -> Quotient(delta, 1, 60)
          [] u \in {"hours", "hour", "h"} -> Quotient(delta, 1, 3600)
          [] u \in {"days", "day", "d"} -> Quotient(delta, 1, 86400)
          [] u \in {"weeks", "week", "w"} -> Quotient(delta, 1, 86400 * 7)
          [] OTHER -> ValueError

\* The scope timediff computes in: the one that is active, or one that it
\* opens on the main synchronizer.
TimediffScope(mn, ch, clk) ==
    IF mn.frozen THEN mn ELSE MainEnter(mn, ch, clk).main

\* TimediffLeaves as it would be if timediff did not close its scope.
TimediffLeavesOpen(mn, sc) == sc

\* The synchronizer as timediff leaves it, sc being the scope it computed
\* in: a scope that it opened is closed, on a return and on a raise alike.
TimediffLeaves(mn, sc) == IF mn.frozen THEN mn ELSE MainExit(sc)

\* TimediffResult as it would be without the scope it opens when none is
\* active.
TimediffNoScope(b, e, mn, ch, clk, d1, d2) ==
    LET clk1 == TAdd(clk, T(0, d1))
        clk2 == TAdd(clk1, T(0, d2))
    IN  [val |-> TSub(AsDatetime(e, mn, clk1), AsDatetime(b, mn, clk2)),
         main |-> mn]

\* utcnow_.timediff(begin, end) in seconds. The host clock advances by d1
\* between the entry and the evaluation of end, and by d2 between the
\* evaluations of end and begin (end is evaluated first).
TimediffResult(b, e, mn, ch, clk, d1, d2) ==
    LET clk1 == TAdd(clk, T(0, d1))
        clk2 == TAdd(clk1, T(0, d2))
        in == IF mn.frozen THEN mn ELSE MainEnter(mn, ch, clk).main
        delta == TSub(AsDatetime(e, in, clk1), AsDatetime(b, in, clk2))
    IN  [val |-> delta, main |-> IF mn.frozen THEN mn ELSE MainExit(in)]

(***************************************************************************)
(* Actions: one per operation of the library a caller can invoke.          *)
(***************************************************************************)
\* The handles a caller holds: the main synchronizer and the children made.
Held == {Main} \cup Made

\* firstRead is the first plain "now" read of the scope that is active, if
\* there was one: a scope that opens or closes makes it unset.
FirstReadAfter(mn) == IF mn.frozen # main.frozen THEN Unset ELSE firstRead

\* The host clock advances.
Tick(d) ==
    /\ clock.s = 0
    /\ clock.n + d <= MaxTicks * d
    /\ clock' = TAdd(clock, T(0, d))
    /\ UNCHANGED <<main, child, lastOp, firstRead, req, res, memo, thread>>

\* utcnow.synchronizer(value, modifier), or the same call on a child.
Call(h, value, modifier) ==
    LET r == CallResult(h, value, modifier, main, child, clock)
    IN  /\ h \in Held
        /\ (~main.frozen /\ h = Main /\ value.tag # "bad") => Made # Children
        /\ main' = r.main
        /\ child' = r.child
        /\ lastOp' = OpRecord("call", h, Status(h), r.out, 0,
                              Unset, Unset, NoEndpoint, NoEndpoint, 0)
        /\ firstRead' = FirstReadAfter(r.main)
        /\ UNCHANGED <<clock, req, res, memo, thread>>

\* with h: ... is entered.
Enter(h) ==
    LET r == EnterResult(h, main, child, clock)
    IN  /\ h \in Held
        /\ main' = r.main
        /\ child' = r.child
        /\ lastOp' = OpRecord("enter", h, Status(h), r.out, 0,
                              Unset, Unset, NoEndpoint, NoEndpoint, 0)
        /\ firstRead' = FirstReadAfter(r.main)
        /\ UNCHANGED <<clock, req, res, memo, thread>>

\* The handle whose with block is open: the child that was entered, or the
\* main synchronizer when it was entered itself.
Opener == IF main.controller # None THEN main.controller ELSE Main

\* with h: ... is left, its body having raised or not. The with statement
\* calls __exit__ on the handle whose __enter__ returned.
Exit(h, raised) ==
    LET mn == ExitResult(h, main)
    IN  /\ main.frozen
        /\ h = Opener
        /\ main' = mn
        /\ lastOp' = OpRecord("exit", h, Status(h),
                              IF raised THEN "raised" ELSE "ok", 0,
                              Unset, Unset, NoEndpoint, NoEndpoint, 0)
        /\ firstRead' = FirstReadAfter(mn)
        /\ UNCHANGED <<clock, child, req, res, memo, thread>>

\* One "now" read.
Read(acc, m) ==
    LET val == ReadNow(acc, m, main, clock)
    IN  /\ acc \notin Converters => m = 0
        /\ lastOp' = OpRecord("read", Main, Status(Main), "ok", m,
                              val, clock, NoEndpoint, NoEndpoint, 0)
        /\ firstRead' = IF main.frozen /\ firstRead = Unset /\ m = 0
                        THEN val ELSE firstRead
        /\ UNCHANGED <<clock, main, child, req, res, memo, thread>>

\* utcnow.timediff(b, e), the host clock advancing while it runs.
Timediff(b, e, d1, d2) ==
    LET r == TimediffResult(b, e, main, child, clock, d1, d2)
    IN  /\ clock.s = 0
        /\ \A d \in TickNs : clock.n + d1 + d2 <= MaxTicks * d
        /\ clock' = TAdd(clock, T(0, d1 + d2))
        /\ main' = r.main
        /\ lastOp' = OpRecord("timediff", main.controller,
                              Status(main.controller), "ok", 0,
                              r.val, Unset, b, e, d2)
        /\ firstRead' = firstRead
        /\ UNCHANGED <<child, req, res, memo, thread>>

\* utcnow.timediff(b, e, unit) that raises ValueError: an endpoint is no
\* timestamp (as_datetime raises inside the scope that timediff opened, and
\* the with statement closes it), or the unit is none (raised after the
\* scope was closed).
TimediffRaises(b, e, unit) ==
    /\ "bad" \in {b.tag, e.tag} \/ InUnit(T(0, 0), unit) = ValueError
    /\ main' = TimediffLeaves(main, TimediffScope(main, child, clock))
    /\ lastOp' = OpRecord("timediff", main.controller,
                          Status(main.controller), "ValueError", 0,
                          Unset, Unset, b, e, 0)
    /\ firstRead' = firstRead
    /\ UNCHANGED <<clock, child, req, res, memo, thread>>

Next ==
    \/ \E d \in TickNs : Tick(d)
    \/ \E v \in Values, m \in Modifiers : Call(Main, v, m)
    \/ \E c \in Children : Call(c, NOW, 0)
    \/ \E h \in Handles : Enter(h)
    \/ \E h \in Handles, raised \in BOOLEAN : Exit(h, raised)
    \/ \E acc \in Accessors, m \in Modifiers : Read(acc, m)
    \/ \E b \in Endpoints, e \in Endpoints, d1 \in TickNs \cup {0},
          d2 \in TickNs \cup {0} : Timediff(b, e, d1, d2)
    \/ \E b \in RaisingEndpoints, unit \in {"seconds", "months"} :
          TimediffRaises(b, Endpoint("now", 0, Unset), unit)

Spec == Init /\ [][Next]_vars

(***************************************************************************)
(* Texts and calendar arithmetic (str, datetime, timedelta).               *)
(***************************************************************************)
\* The decimal digits, Digit[d + 1] being the character of d.
Digit == <<"0", "1", "2", "3", "4", "5", "6", "7", "8", "9">>

IsDigit(c) == \E d \in 0 .. 9 : Digit[d + 1] = c

DigitOf(c) == CHOOSE d \in 0 .. 9 : Digit[d + 1] = c

AllDigits(s) == \A i \in 1 .. Len(s) : IsDigit(s[i])

\* int(s) of a text of digits.
RECURSIVE NumberOf(_)
NumberOf(s) ==
    IF s = <<>> THEN 0
    ELSE 10 * NumberOf(SubSeq(s, 1, Len(s) - 1)) + DigitOf(s[Len(s)])

\* n written with exactly w digits (the "%04d", "%02d", "%06d" of isoformat).
RECURSIVE Pad(_, _)
Pad(n, w) ==
    IF w = 0 THEN <<>> ELSE Append(Pad(n \div 10, w - 1), Digit[(n % 10) + 1])

\* str.upper() of one character, for the letters of the model's alphabet.
Upper(c) ==
    CASE c = "t" -> "T"
      [] c = "z" -> "Z"
      [] c = "x" -> "X"
      [] OTHER -> c

\* s[from:] in one-based positions.
From(s, from) == SubSeq(s, from, Len(s))

\* str.strip(): the text without its leading and trailing blanks.
RECURSIVE Strip(_)
Strip(s) ==
    IF s # <<>> /\ s[1] = " " THEN Strip(Tail(s))
    ELSE IF s # <<>> /\ s[Len(s)] = " " THEN Strip(SubSeq(s, 1, Len(s) - 1))
    ELSE s

\* str.endswith
EndsWith(s, suffix) ==
    Len(s) >= Len(suffix) /\ From(s, Len(s) - Len(suffix) + 1) = suffix

SecPerDay == 86400

\* datetime.MINYEAR and datetime.MAXYEAR
MinYear == 1
MaxYear == 9999

IsLeap(y) == (y % 4 = 0 /\ y % 100 # 0) \/ y % 400 = 0

DaysInMonth(y, m) ==
    IF m = 2 THEN (IF IsLeap(y) THEN 29 ELSE 28)
    ELSE IF m \in {4, 6, 9, 11} THEN 30 ELSE 31

\* The arguments datetime(y, mo, d, h, mi, s, us) accepts.
ValidFields(y, mo, d, h, mi, s, us) ==
    /\ y \in MinYear .. MaxYear
    /\ mo \in 1 .. 12
    /\ d >= 1 /\ d <= DaysInMonth(y, mo)
    /\ h \in 0 .. 23 /\ mi \in 0 .. 59 /\ s \in 0 .. 59
    /\ us >= 0 /\ us < 1000000

\* A datetime in UTC.
DT(y, mo, d, h, mi, s, us) ==
    [y |-> y, mo |-> mo, d |-> d, h |-> h, mi |-> mi, s |-> s, us |-> us]

\* The number of days from 1970-01-01 to the date y-m-d.
DaysFromCivil(y, m, d) ==
    LET yy == IF m <= 2 THEN y - 1 ELSE y
        era == yy \div 400
        yoe == yy - era * 400
        mp == IF m > 2 THEN m - 3 ELSE m + 9
        doy == ((153 * mp + 2) \div 5) + d - 1
        doe == yoe * 365 + (yoe \div 4) - (yoe \div 100) + doy
    IN  era * 146097 + doe - 719468

\* The date that lies z days after 1970-01-01, as <<y, m, d>>.
CivilFromDays(z) ==
    LET zz == z + 719468
        era == zz \div 146097
        doe == zz - era * 146097
        yoe == (doe - (doe \div 1460) + (doe \div 36524) - (doe \div 146096))
                   \div 365
        doy == doe - (365 * yoe + (yoe \div 4) - (yoe \div 100))
        mp == (5 * doy + 2) \div 153
        d == doy - ((153 * mp + 2) \div 5) + 1
        m == IF mp < 10 THEN mp + 3 ELSE mp - 9
    IN  <<IF m <= 2 THEN yoe + era * 400 + 1 ELSE yoe + era * 400, m, d>>

\* The datetime that lies secs seconds after the midnight that begins the
\* day `days`, with the microsecond us (datetime + timedelta, astimezone).
DatetimeAt(days, secs, us) ==
    LET day == days + (secs \div SecPerDay)
        sod == secs % SecPerDay
        ymd == CivilFromDays(day)
    IN  DT(ymd[1], ymd[2], ymd[3],
           sod \div 3600, (sod % 3600) \div 60, sod % 60, us)

\* datetime.timestamp() of a datetime in UTC.
Timestamp(dt) ==
    T(DaysFromCivil(dt.y, dt.mo, dt.d) * SecPerDay
          + dt.h * 3600 + dt.mi * 60 + dt.s,
      dt.us * NsPerUs)

\* datetime.fromtimestamp(t, tz=UTC): the instant rounded to microseconds,
\* ties to even.
FromTimestamp(t) ==
    LET r == RoundUs(t)
    IN  DatetimeAt(r.s \div SecPerDay, r.s % SecPerDay, r.n \div NsPerUs)

\* datetime.isoformat(timespec="microseconds") of a datetime in UTC, its
\* "+00:00" replaced by "Z" (or "Z" appended to a naive one).
IsoFormatZ(dt) ==
    Pad(dt.y, 4) \o <<"-">> \o Pad(dt.mo, 2) \o <<"-">> \o Pad(dt.d, 2)
        \o <<"T">> \o Pad(dt.h, 2) \o <<":">> \o Pad(dt.mi, 2) \o <<":">>
        \o Pad(dt.s, 2) \o <<".">> \o Pad(dt.us, 6) \o <<"Z">>

(***************************************************************************)
(* datetime.strptime for the directives of _ACCEPTED_INPUT_FORMAT_VALUES.  *)
(* A format is a sequence of tokens: "Y", "m", "d", "H", "M", "S", "f" and *)
(* "z" stand for the directive of that letter, " " for any run of blanks,  *)
(* every other token for itself (letters matched without regard to case).  *)
(***************************************************************************)
\* The number of digits, at most max, the text has from position i on.
DigitRun(s, i, max) ==
    CHOOSE k \in 0 .. max :
        /\ \A j \in 0 .. k - 1 : i + j <= Len(s) /\ IsDigit(s[i + j])
        /\ k = max \/ i + k > Len(s) \/ ~IsDigit(s[i + k])

\* The number of blanks the text has from position i on.
RECURSIVE BlankRun(_, _)
BlankRun(s, i) ==
    IF i <= Len(s) /\ s[i] = " " THEN 1 + BlankRun(s, i + 1) ELSE 0

\* The values the regular expression of a one-or-two-digit directive admits.
DirectiveRange(tok) ==
    CASE tok = "m" -> 1 .. 12
      [] tok = "d" -> 1 .. 31
      [] tok = "H" -> 0 .. 23
      [] tok = "M" -> 0 .. 59
      [] tok = "S" -> 0 .. 61

\* What a parse yields: the fields of the datetime and, if the text carried
\* one, the offset from UTC in minutes.
NoFields ==
    [ok |-> TRUE, Y |-> 1900, m |-> 1, d |-> 1, H |-> 0, M |-> 0, S |-> 0,
     f |-> 0, tz |-> FALSE, off |-> 0]

NoMatch == [NoFields EXCEPT !.ok = FALSE]

\* 10 ** k
RECURSIVE Pow10(_)
Pow10(k) == IF k = 0 THEN 1 ELSE 10 * Pow10(k - 1)

\* %z at position i: "Z", or a sign, two digits of hours, an optional colon
\* and two digits of minutes, the first of them at most 5. Yields the number
\* of characters matched (0 if none) and the offset in minutes.
MatchZone(s, i) ==
    LET colon == IF i + 3 <= Len(s) /\ s[i + 3] = ":" THEN 1 ELSE 0
        last == i + 4 + colon
    IN  IF i <= Len(s) /\ s[i] = "Z" THEN [len |-> 1, off |-> 0]
        ELSE IF /\ last <= Len(s)
                /\ s[i] \in {"+", "-"}
                /\ IsDigit(s[i + 1]) /\ IsDigit(s[i + 2])
                /\ IsDigit(s[last - 1]) /\ IsDigit(s[last])
                /\ DigitOf(s[last - 1]) <= 5
             THEN [len |-> 5 + colon,
                   off |-> (IF s[i] = "-" THEN -1 ELSE 1)
                           * (NumberOf(SubSeq(s, i + 1, i + 2)) * 60
                              + NumberOf(SubSeq(s, last - 1, last)))]
             ELSE [len |-> 0, off |-> 0]

\* The regular expression of the format fmt from its token k on, matched
\* against the text s from its position i on, to the end of the text.
RECURSIVE Match(_, _, _, _, _)
Match(s, i, fmt, k, acc) ==
    IF k > Len(fmt) THEN (IF i = Len(s) + 1 THEN acc ELSE NoMatch)
    ELSE
    LET tok == fmt[k]
        run2 == DigitRun(s, i, 2)
        val2 == NumberOf(SubSeq(s, i, i + run2 - 1))
        run6 == DigitRun(s, i, 6)
        zone == MatchZone(s, i)
        blanks == BlankRun(s, i)
    IN  CASE tok = "Y" ->
                 IF DigitRun(s, i, 4) = 4
                 THEN Match(s, i + 4, fmt, k + 1,
                            [acc EXCEPT !.Y = NumberOf(SubSeq(s, i, i + 3))])
                 ELSE NoMatch
          [] tok = "d" /\ i < Len(s) /\ s[i] = " " ->
                 IF IsDigit(s[i + 1]) /\ s[i + 1] # "0"
                 THEN Match(s, i + 2, fmt, k + 1,
                            [acc EXCEPT !.d = DigitOf(s[i + 1])])
                 ELSE NoMatch
          [] tok \in {"m", "d", "H", "M", "S"} ->
                 IF /\ run2 > 0
                    /\ val2 \in DirectiveRange(tok)
                    /\ (run2 = 1 /\ tok \in {"m", "d"}) => val2 # 0
                 THEN Match(s, i + run2, fmt, k + 1, [acc EXCEPT ![tok] = val2])
                 ELSE NoMatch
          [] tok = "f" ->
                 IF run6 > 0
                 THEN Match(s, i + run6, fmt, k + 1,
                            [acc EXCEPT !.f = NumberOf(SubSeq(s, i, i + run6 - 1))
                                               * Pow10(6 - run6)])
                 ELSE NoMatch
          [] tok = "z" ->
                 IF zone.len > 0
                 THEN Match(s, i + zone.len, fmt, k + 1,
                            [acc EXCEPT !.tz = TRUE, !.off = zone.off])
                 ELSE NoMatch
          [] tok = " " ->
                 IF blanks > 0
                 THEN Match(s, i + blanks, fmt, k + 1, acc)
                 ELSE NoMatch
          [] OTHER ->
                 IF i <= Len(s) /\ Upper(s[i]) = tok
                 THEN Match(s, i + 1, fmt, k + 1, acc)
                 ELSE NoMatch

\* The offsets datetime.timezone accepts: strictly within a day, in minutes.
MaxOffset == 24 * 60

\* The fields r that a text matched a format with, if they make a date, a
\* time below 24:00:00 and an offset within a day.
ValidMatch(r) ==
    IF /\ r.ok
       /\ ValidFields(r.Y, r.m, r.d, r.H, r.M, r.S, r.f)
       /\ r.off > -MaxOffset /\ r.off < MaxOffset
    THEN r ELSE NoMatch

\* datetime.strptime(s, fmt): the fields if the text matches the format and
\* they make a date, a time below 24:00:00 and an offset within a day (a
\* ValueError otherwise).
Strptime(s, fmt) == ValidMatch(Match(s, 1, fmt, 1, NoFields))

(***************************************************************************)
(* Values, results and _transform_value.                                   *)
(***************************************************************************)
\* A text value.
Text(s) == [tag |-> "text", s |-> s]

\* An int or float value: an instant as seconds since the epoch.
Num(t) == [tag |-> "num", t |-> t]

\* A returned text.
Str(s) == [kind |-> "str", val |-> s]

DateFormat == <<"Y", "-", "m", "-", "d">>

\* _ACCEPTED_INPUT_FORMAT_VALUES, in its order.
AcceptedInputFormatValues ==
    LET hm == <<"H", ":", "M">>
        hms == hm \o <<":", "S">>
        hmsf == hms \o <<".", "f">>
        dT(time) == DateFormat \o <<"T">> \o time
        d_(time) == DateFormat \o <<" ">> \o time
    IN  << dT(hmsf) \o <<"z">>, d_(hmsf) \o <<"z">>,
           dT(hmsf) \o <<" ", "z">>, d_(hmsf) \o <<" ", "z">>,
           dT(hmsf), d_(hmsf),
           dT(hms) \o <<"z">>, d_(hms) \o <<"z">>,
           dT(hms) \o <<" ", "z">>, d_(hms) \o <<" ", "z">>,
           dT(hms), d_(hms),
           dT(hm) \o <<"z">>, d_(hm) \o <<"z">>,
           dT(hm) \o <<" ", "z">>, d_(hm) \o <<" ", "z">>,
           DateFormat \o <<"z">>,
           dT(hm), d_(hm),
           DateFormat \o <<" ", "z">>,
           DateFormat >>

\* The number of times the character c occurs in the text.
RECURSIVE Count(_, _)
Count(s, c) ==
    IF s = <<>> THEN 0
    ELSE (IF s[1] = c THEN 1 ELSE 0) + Count(Tail(s), c)

\* A text of digits with at most one decimal point before, after or among
\* them.
IsUnsigned(body) ==
    /\ \E i \in 1 .. Len(body) : IsDigit(body[i])
    /\ \A i \in 1 .. Len(body) : IsDigit(body[i]) \/ body[i] = "."
    /\ Count(body, ".") <= 1

\* The number read as by int(): the digits before the point only.
MagnitudeWhole(body) ==
    LET dot == IF Count(body, ".") = 0 THEN Len(body) + 1
               ELSE CHOOSE i \in 1 .. Len(body) : body[i] = "."
    IN  T(NumberOf(SubSeq(body, 1, dot - 1)), 0)

\* The number such a text denotes. The fraction is read to the nanosecond.
Magnitude(body) ==
    LET dot == IF Count(body, ".") = 0 THEN Len(body) + 1
               ELSE CHOOSE i \in 1 .. Len(body) : body[i] = "."
        run == DigitRun(body, dot + 1, 9)
    IN  T(NumberOf(SubSeq(body, 1, dot - 1)),
          NumberOf(SubSeq(body, dot + 1, dot + run)) * Pow10(9 - run))

\* -t
Neg(t) == TNorm(-t.s, -t.n)

\* NUMERIC_REGEX: an optional "-", then an unsigned number.
IsNumeric(s) == IsUnsigned(IF s # <<>> /\ s[1] = "-" THEN Tail(s) ELSE s)

\* float(s) of a numeric text, as an instant.
FloatOf(s) ==
    IF s[1] = "-" THEN Neg(Magnitude(Tail(s))) ELSE Magnitude(s)

\* The number of integer digits of a numeric text.
WholeDigits(s) ==
    LET body == IF s[1] = "-" THEN Tail(s) ELSE s
    IN  DigitRun(body, 1, Len(body))

\* The condition under which _transform_value reads a text as a number of
\* seconds since the epoch.
ReadAsNumber(s) ==
    /\ s # <<>>
    /\ Len(s) <= 21
    /\ Count(s, "T") = 0 /\ Count(s, ":") = 0 /\ Count(s, "/") = 0
    /\ Count(s, "-") <= 1
    /\ IsNumeric(s)

\* PREFERRED_FORMAT_REGEX. Its "." before the fraction is not escaped and
\* stands for any character.
PreferredFormat(s) ==
    LET two(i) == NumberOf(SubSeq(s, i, i + 1))
        suffix == From(s, 27)
    IN  /\ Len(s) >= 26
        /\ AllDigits(SubSeq(s, 1, 4))
        /\ s[5] = "-"
        /\ AllDigits(SubSeq(s, 6, 7)) /\ two(6) \in 1 .. 12
        /\ s[8] = "-"
        /\ AllDigits(SubSeq(s, 9, 10)) /\ two(9) \in 1 .. 31
        /\ s[11] \in {"T", "t", " "}
        /\ AllDigits(SubSeq(s, 12, 13)) /\ two(12) \in 0 .. 23
        /\ s[14] = ":"
        /\ AllDigits(SubSeq(s, 15, 16)) /\ two(15) \in 0 .. 59
        /\ s[17] = ":"
        /\ AllDigits(SubSeq(s, 18, 19)) /\ two(18) \in 0 .. 59
        /\ AllDigits(SubSeq(s, 21, 26))
        /\ suffix \in {<<>>, <<"Z">>, <<"z">>,
                       <<"+", "0", "0", ":", "0", "0">>,
                       <<"-", "0", "0", ":", "0", "0">>}

\* str.upper()
UpperText(s) == [i \in 1 .. Len(s) |-> Upper(s[i])]

\* The splice of the fast path with its second slice one character early.
PreferredResultOffByOne(s) ==
    UpperText(SubSeq(s, 1, 10) \o <<"T">> \o SubSeq(s, 11, 25)) \o <<"Z">>

\* What _transform_value returns for a text that matches the preferred
\* format: the text itself with a "T", in upper case, its suffix replaced
\* by "Z".
PreferredResult(s) ==
    UpperText(SubSeq(s, 1, 10) \o <<"T">> \o SubSeq(s, 12, 26)) \o <<"Z">>

\* The fields r of a format that matched, or else those of a later format:
\* the loop over the formats goes on after a ValueError and stops at the
\* first format that parses.
OrElse(r, later) == IF r.ok THEN r ELSE later

\* The first format of _ACCEPTED_INPUT_FORMAT_VALUES, from the k-th on, that
\* strptime accepts the text in, and the fields it yields.
RECURSIVE FirstFormat(_, _)
FirstFormat(s, k) ==
    IF k > Len(AcceptedInputFormatValues) THEN NoMatch
    ELSE OrElse(Strptime(s, AcceptedInputFormatValues[k]),
                FirstFormat(s, k + 1))

\* astimezone with the offset added where it is to be subtracted.
AsTimezoneUTCAdds(r) ==
    DatetimeAt(DaysFromCivil(r.Y, r.m, r.d),
               r.H * 3600 + r.M * 60 + r.S + r.off * 60, r.f)

\* dt.astimezone(UTC) of parsed fields that carry an offset.
AsTimezoneUTC(r) ==
    DatetimeAt(DaysFromCivil(r.Y, r.m, r.d),
               r.H * 3600 + r.M * 60 + r.S - r.off * 60, r.f)

\* The end of _transform_value for a datetime that carries an offset:
\* astimezone(UTC), which leaves the years 1 to 9999 with an OverflowError.
AwareResult(dt) ==
    IF dt.y \notin MinYear .. MaxYear THEN OverflowError
    ELSE Str(IsoFormatZ(dt))

\* The end of _transform_value after the loop over the formats: r is what
\* the loop parsed, utc whether the text ended in " UTC".
ParsedResult(r, utc) ==
    IF ~r.ok THEN ValueError
    ELSE IF utc /\ r.tz THEN ValueError
    ELSE IF ~r.tz
         THEN Str(IsoFormatZ(DT(r.Y, r.m, r.d, r.H, r.M, r.S, r.f)))
    ELSE AwareResult(AsTimezoneUTC(r))

\* _transform_value of a stripped text that is no number.
TransformText(s) ==
    LET day == NumberOf(SubSeq(s, 9, 10))
        month == NumberOf(SubSeq(s, 6, 7))
        utc == EndsWith(s, <<" ", "U", "T", "C">>)
        body == IF utc THEN SubSeq(s, 1, Len(s) - 4) ELSE s
    IN  IF PreferredFormat(s)
        THEN IF /\ day >= 30 \/ (month = 2 /\ day >= 28)
                /\ ~Strptime(SubSeq(s, 1, 10), DateFormat).ok
             THEN ValueError
             ELSE Str(PreferredResult(s))
        ELSE ParsedResult(FirstFormat(body, 1), utc)

\* _transform_value. A number beyond nine integer digits is not computed:
\* the numeric inputs of the model have either at most nine or more than
\* twelve of them, and the latter lie after the year 9999.
TransformValue(value) ==
    LET s == Strip(value.s)
    IN  IF value.tag = "num" THEN Str(IsoFormatZ(FromTimestamp(value.t)))
        ELSE IF ReadAsNumber(s) /\ WholeDigits(s) > 9 THEN ValueError
        ELSE TransformText(IF ReadAsNumber(s)
                           THEN IsoFormatZ(FromTimestamp(FloatOf(s)))
                           ELSE s)

(***************************************************************************)
(* _init_modifier: the value and the modifier a conversion is called with, *)
(* normalized to a value and a number of seconds.                          *)
(***************************************************************************)
\* A google.protobuf.Timestamp message, and its serialization: the bytes
\* that MergeFromString decodes to the same pair of fields.
Proto(seconds, nanos) == [tag |-> "proto", seconds |-> seconds, nanos |-> nanos]

Bytes(seconds, nanos) == [tag |-> "bytes", seconds |-> seconds, nanos |-> nanos]

\* The modifier None.
NoneModifier == [tag |-> "none"]

\* The keys of MODIFIER_MUL of two characters and of one (the key with the
\* micro sign is left out: the texts of the model are ASCII).
Units2 == {<<"n", "s">>, <<"u", "s">>, <<"m", "s">>}

Units1 == {<<"s">>, <<"m">>, <<"h">>, <<"d">>}

\* t * k for a natural number k, by halving k.
RECURSIVE Times(_, _)
Times(t, k) ==
    IF k = 0 THEN T(0, 0)
    ELSE LET half == Times(t, k \div 2)
             twice == TAdd(half, half)
         IN  IF k % 2 = 1 THEN TAdd(twice, t) ELSE twice

\* t * 1e-3 of a t that is not negative, cut to whole nanoseconds.
Milli(t) == T(t.s \div 1000, (t.s % 1000) * 1000000 + (t.n \div 1000))

\* MODIFIER_MUL looked up by the last character of the unit only.
ScaleByLastCharacter(t, unit) ==
    CASE unit[Len(unit)] = "s" -> t
      [] unit[Len(unit)] = "m" -> Times(t, 60)
      [] unit[Len(unit)] = "h" -> Times(t, 3600)
      [] unit[Len(unit)] = "d" -> Times(t, 86400)

\* number * MODIFIER_MUL[unit], the number not negative.
Scale(t, unit) ==
    CASE unit = <<"n", "s">> -> Milli(Milli(Milli(t)))
      [] unit = <<"u", "s">> -> Milli(Milli(t))
      [] unit = <<"m", "s">> -> Milli(t)
      [] unit = <<"s">> -> t
      [] unit = <<"m">> -> Times(t, 60)
      [] unit = <<"h">> -> Times(t, 3600)
      [] unit = <<"d">> -> Times(t, 86400)

\* s[-2:]
LastTwo(s) == IF Len(s) >= 2 THEN SubSeq(s, Len(s) - 1, Len(s)) ELSE s

\* int(s), or float(s) if the text has a decimal point: blanks around it
\* are dropped, a sign may lead, and an unsigned number must follow.
NumberText(s) ==
    LET t == Strip(s)
        signed == t # <<>> /\ t[1] \in {"+", "-"}
        body == IF signed THEN Tail(t) ELSE t
    IN  IF ~IsUnsigned(body) THEN [ok |-> FALSE, val |-> body, neg |-> FALSE]
        ELSE [ok |-> TRUE,
              val |-> body,
              neg |-> signed /\ t[1] = "-"]

\* The seconds a text modifier stands for (lines 427-443), or the exception
\* its evaluation raises.
ModifierSeconds(m) ==
    LET mulStr == IF LastTwo(m) \in Units2 THEN LastTwo(m) ELSE <<m[Len(m)]>>
        before == m[Len(m) - Len(mulStr)]
        cut == /\ Len(m) > 1
               /\ mulStr \in Units1 \cup Units2
               /\ Len(m) > Len(mulStr)
               /\ IsDigit(before) \/ before = "."
        number == NumberText(IF cut THEN SubSeq(m, 1, Len(m) - Len(mulStr))
                             ELSE m)
        seconds == Scale(Magnitude(number.val), IF cut THEN mulStr ELSE <<"s">>)
    IN  IF m = <<>> THEN Raise("IndexError")
        ELSE IF ~number.ok THEN ValueError
        ELSE [kind |-> "ok", val |-> IF number.neg THEN Neg(seconds) ELSE seconds]

\* `not modifier`
Falsy(modifier) ==
    \/ modifier.tag = "none"
    \/ modifier.tag = "num" /\ modifier.t = T(0, 0)
    \/ modifier.tag = "text" /\ modifier.s = <<>>

\* The same condition without its test of the modifier.
ValueIsModifierAnyModifier(value, modifier) ==
    /\ value.tag = "text"
    /\ value.s # <<>>
    /\ value.s[1] \in {"+", "-"}
    /\ <<value.s[Len(value.s)]>> \in Units1 \/ LastTwo(value.s) \in Units2

\* The condition of lines 413-420: a text value that is read as a modifier
\* of "now".
ValueIsModifier(value, modifier) ==
    /\ value.tag = "text"
    /\ value.s # <<>>
    /\ value.s[1] \in {"+", "-"}
    /\ Falsy(modifier)
    /\ <<value.s[Len(value.s)]>> \in Units1 \/ LastTwo(value.s) \in Units2

\* str.lower() of one character, for the letters of the model's alphabet.
Lower(c) ==
    CASE c = "N" -> "n"
      [] c = "O" -> "o"
      [] c = "W" -> "w"
      [] OTHER -> c

LowerText(s) == [i \in 1 .. Len(s) |-> Lower(s[i])]

\* _init_modifier: the normalized value and the modifier in seconds, or the
\* exception raised.
InitModifier(value, modifier) ==
    LET number == IF value.tag \in {"proto", "bytes"}
                  THEN Num(TNorm(value.seconds, value.nanos)) ELSE value
        asMod == ValueIsModifier(number, modifier)
        mod == IF asMod THEN number ELSE modifier
        secs == CASE mod.tag = "none" -> [kind |-> "ok", val |-> T(0, 0)]
                  [] mod.tag = "num" -> [kind |-> "ok", val |-> mod.t]
                  [] mod.tag = "text" -> ModifierSeconds(mod.s)
        val == IF asMod THEN NOW
               ELSE IF /\ number.tag = "text"
                       /\ LowerText(number.s)
                              \in {<<"n", "o", "w">>, <<"t", "o", "d", "a", "y">>}
                    THEN NOW
               ELSE number
    IN  IF secs.kind # "ok" THEN secs
        ELSE [kind |-> "ok", value |-> val, modifier |-> secs.val]

(***************************************************************************)
(* The conversion functions of utcnow_.                                    *)
(***************************************************************************)
\* What a conversion returns besides a text: a datetime and a float, both
\* as the instant they denote, and a Timestamp message.
Datetime(t) == [kind |-> "datetime", val |-> t]

Float(t) == [kind |-> "float", val |-> t]

Message(seconds, nanos) ==
    [kind |-> "message", seconds |-> seconds, nanos |-> nanos]

\* datetime.timestamp() of the fields r that strptime parsed.
FieldsToUnixtime(r) ==
    IF ~r.ok THEN ValueError
    ELSE Float(Timestamp(DT(r.Y, r.m, r.d, r.H, r.M, r.S, r.f)))

\* The strptime of _timestamp_to_datetime on what _transform_value gave, a
\* canonical text or an exception, and datetime.timestamp() of it.
TextToUnixtime(text) ==
    IF text.kind # "str" THEN text
    ELSE FieldsToUnixtime(Strptime(text.val, AcceptedInputFormatValues[1]))

\* _timestamp_to_datetime followed by datetime.timestamp(): the canonical
\* text of the value, parsed by strptime with "%Y-%m-%dT%H:%M:%S.%f%z".
TimestampToUnixtime(value) == TextToUnixtime(TransformValue(value))

\* _unixtime_to_protobuf without the second it borrows for negative nanos.
UnixtimeToProtobufNoBorrow(u) ==
    LET seconds == IF u.s < 0 /\ u.n > 0 THEN u.s + 1 ELSE u.s
        rest == (u.s - seconds) * NsPerSec + u.n
    IN  Message(seconds, RoundHalfEven(rest, NsPerUs) * NsPerUs)

\* _unixtime_to_protobuf, and the same lines of as_protobuf for "now".
UnixtimeToProtobuf(u) ==
    LET seconds == IF u.s < 0 /\ u.n > 0 THEN u.s + 1 ELSE u.s
        rest == (u.s - seconds) * NsPerSec + u.n
        nanos == RoundHalfEven(rest, NsPerUs) * NsPerUs
    IN  IF nanos < 0 THEN Message(seconds - 1, nanos + NsPerSec)
        ELSE Message(seconds, nanos)

\* timedelta(seconds=modifier): a duration in whole microseconds.
Timedelta(modifier) == RoundUs(modifier)

\* A conversion of "now" with a modifier of m seconds, whole or not.
ConvertNow(fn, m, mn, clk) ==
    LET part == T(0, m.n)
    IN  CASE fn = "rfc3339_timestamp" ->
                 Str(IsoFormatZ(FromTimestamp(
                     TAdd(Rfc3339Now(m.s, mn, clk), Timedelta(part)))))
          [] fn = "as_datetime" ->
                 Datetime(TAdd(AsDatetimeNow(m.s, mn, clk), Timedelta(part)))
          [] fn = "as_unixtime" ->
                 Float(TAdd(AsUnixtimeNow(m.s, mn, clk), part))
          [] fn = "as_protobuf" ->
                 UnixtimeToProtobuf(TAdd(AsUnixtimeNow(m.s, mn, clk), part))

\* The end of a conversion that goes through the number of seconds u of
\* its value (or the exception that raised), with a modifier of m seconds.
ConvertUnixtime(fn, u, m) ==
    IF u.kind # "float" THEN u
    ELSE CASE fn = "rfc3339_timestamp" ->
                  TransformValue(Num(TAdd(u.val, m)))
           [] fn = "as_datetime" ->
                  Datetime(IF m = T(0, 0) THEN u.val
                           ELSE TAdd(u.val, Timedelta(m)))
           [] fn = "as_unixtime" -> Float(TAdd(u.val, m))
           [] fn = "as_protobuf" -> UnixtimeToProtobuf(TAdd(u.val, m))

\* A conversion of a value that is not "now" with a modifier of m seconds.
ConvertValue(fn, value, m) ==
    IF fn = "rfc3339_timestamp" /\ m = T(0, 0) THEN TransformValue(value)
    ELSE ConvertUnixtime(fn, TimestampToUnixtime(value), m)

\* The body of a conversion, with the value and modifier i that
\* _init_modifier returned (or the exception it raised).
ConvertArguments(fn, i, mn, clk) ==
    IF i.kind # "ok" THEN i
    ELSE IF i.value.tag = "now" THEN ConvertNow(fn, i.modifier, mn, clk)
    ELSE ConvertValue(fn, i.value, i.modifier)

\* utcnow_.rfc3339_timestamp, as_datetime, as_unixtime and as_protobuf:
\* what fn(value, modifier) returns or raises.
Convert(fn, value, modifier, mn, clk) ==
    ConvertArguments(fn, InitModifier(value, modifier), mn, clk)

(***************************************************************************)
(* The values and modifiers the conversions are called with.               *)
(***************************************************************************)
DateText(y, m, d) == Pad(y, 4) \o <<"-">> \o Pad(m, 2) \o <<"-">> \o Pad(d, 2)

TimeText(h, mi, s) == Pad(h, 2) \o <<":">> \o Pad(mi, 2) \o <<":">> \o Pad(s, 2)

\* "YYYY-MM-DD<sep>HH:mm:ss<point>ffffff<suffix>"
FullText(y, m, d, sep, h, mi, s, point, us, suffix) ==
    DateText(y, m, d) \o <<sep>> \o TimeText(h, mi, s) \o <<point>>
        \o Pad(us, 6) \o suffix

UtcOffset == <<"+", "0", "0", ":", "0", "0">>

\* Years at both ends of the calendar, leap years and others, among them a
\* century that is a leap year and one that is not.
Years == {0, 1, 1900, 2000, 2023, 2024, 9999}

\* Every month, and the numbers on either side of them.
Months == 0 .. 13

\* The days at both ends of a month, and the numbers on either side.
Days == {0, 1, 15, 28, 29, 30, 31, 32}

\* A date on its own and inside the full shape, for every year, month and
\* day above.
DateInputs ==
    {DateText(y, m, d) : y \in Years, m \in Months, d \in Days}
        \cup {FullText(y, m, d, "T", 0, 0, 0, ".", 0, <<"Z">>) :
                  y \in Years, m \in Months, d \in Days}

\* One instant in every spelling of the full shape, with characters other
\* than a point before the fraction, and with more or fewer digits.
ShapeInputs ==
    {FullText(2023, 9, 6, sep, 23, 53, 59, point, 684762, suffix) :
         sep \in {"T", "t", " ", "x"}, point \in {".", ",", "x", ":"},
         suffix \in {<<>>, <<"Z">>, <<"z">>, UtcOffset,
                     <<"-", "0", "0", ":", "0", "0">>, <<" ", "U", "T", "C">>,
                     <<"Z", " ">>, <<"Z", "Z">>}}
        \cup {DateText(2023, 9, 6) \o <<"T">> \o TimeText(23, 53, 59)
                  \o <<".">> \o frac \o <<"Z">> :
                  frac \in {<<>>, <<"6">>, <<"6", "8", "4", "7", "6">>,
                            <<"6", "8", "4", "7", "6", "2", "1">>}}

\* Texts that are no timestamp at all, and numbers as text.
OtherInputs ==
    {<<>>, <<" ">>, <<"b", "a", "d">>, <<"-">>, <<".">>,
     <<"2", "0", "2", "3">>, <<"2", "0", "2", "3", "-", "0", "9">>,
     <<"2", "0", "2", "3", "/", "0", "9", "/", "0", "6">>,
     <<"2", "0", "2", "3", "-", "9", "-", "6">>,
     <<"0">>, <<"-", "1", ".", "5">>, <<".", "5">>, <<"8", "6", "4", "0", "0">>,
     <<"-", "-", "5">>, <<"1", ".", "2", ".", "3">>,
     <<"1", "2", "3", "4", "5", "6", "7", "8", "9", "0", "1", "2", "3">>}

\* The texts rfc3339_timestamp is called with, without a modifier.
TextInputs == DateInputs \cup ShapeInputs \cup OtherInputs

\* Instants on either side of midnight, of a new year and of the end of
\* February, as <<year, month, day, hour, minute>>.
OffsetBases ==
    {<<2021, 4, 30, 9, 0>>, <<2021, 1, 1, 0, 30>>, <<2020, 12, 31, 23, 30>>,
     <<2021, 3, 1, 0, 0>>, <<2024, 3, 1, 0, 0>>}

\* No offset, UTC, and offsets east and west of it, up to a day.
Offsets ==
    {<<>>, <<"Z">>, UtcOffset, <<"+", "0", "1", ":", "0", "0">>,
     <<"-", "0", "1", ":", "0", "0">>, <<"+", "0", "5", "3", "0">>,
     <<" ", "+", "0", "1", ":", "0", "0">>,
     <<"-", "2", "3", ":", "5", "9">>, <<"+", "2", "4", ":", "0", "0">>}

\* No fraction of a second, and a quarter of a second.
OffsetFractions == {<<>>, <<".", "2", "5", "0", "0", "0", "0">>}

\* The text of the instant b with a fraction and an offset.
OffsetText(b, sep, frac, off) ==
    DateText(b[1], b[2], b[3]) \o <<sep>> \o TimeText(b[4], b[5], 0)
        \o frac \o off

\* Texts with and without an offset from UTC.
OffsetInputs ==
    {OffsetText(b, sep, frac, off) :
         b \in OffsetBases, sep \in {"T", " "}, off \in Offsets,
         frac \in OffsetFractions}

\* Text modifiers: a number, with or without a sign, with a unit of
\* MODIFIER_MUL, none, or an unknown one.
ModifierNumbers ==
    {<<"7">>, <<"1", "0">>, <<"1", ".", "5">>, <<".", "4">>, <<"0">>}

ModifierUnits == Units1 \cup Units2 \cup {<<>>, <<"x">>}

WellFormedModifiers ==
    {sign \o number \o unit :
         sign \in {<<>>, <<"+">>, <<"-">>}, number \in ModifierNumbers,
         unit \in ModifierUnits}

\* Text modifiers without a number, with a number that is none, and the
\* empty text.
MalformedModifiers ==
    {<<>>, <<"s">>, <<"m", "s">>, <<"+", "h">>, <<"-", "d">>, <<".">>,
     <<".", "s">>, <<"+">>, <<"1", ".", "2", ".", "3", "s">>,
     <<"+", "-", "1", "s">>, <<"1", "0", " ", "s">>, <<"b", "a", "d">>}

\* The values a modifier is applied to: the epoch, and an instant with a
\* fraction (test_rfc3339_modifier).
ModifierBases ==
    {Num(T(0, 0)),
     Text(FullText(2022, 10, 17, "T", 15, 15, 22, ".", 556084, <<"Z">>))}

\* Text values that begin with a sign: with a unit, without one, with an
\* unknown one, and without a number.
SignedValues ==
    {<<"+", "1", "s">>, <<"-", "1", "0", "s">>, <<"+", "1", "h">>,
     <<"+", "7", "d">>, <<"+", "1", "0", "m", "s">>, <<"+", "5">>,
     <<"-", "5">>, <<"-", "1", "x">>, <<"+", "s">>}

\* No modifier in each of its forms (0, None, the empty text), and a
\* modifier that is not zero, as a number and as a text.
ModifierForms ==
    {Num(T(0, 0)), NoneModifier, Text(<<>>), Num(T(1, 0)),
     Text(<<"+", "1", "s">>)}

\* Instants before and after the epoch, some of them no whole number of
\* microseconds, as numbers and as texts.
InstantValues ==
    {Num(T(0, 0)), Num(T(-1, 500000000)), Num(T(-2, 500000000)),
     Num(T(0, 999999600)), Num(T(-1, 999999600)), Num(T(1, 250000000)),
     Text(FullText(1970, 1, 1, "T", 0, 0, 0, ".", 999999, <<"Z">>)),
     Text(FullText(1969, 12, 31, "T", 23, 59, 59, ".", 500000, <<"Z">>))}

\* Timestamp messages and their serializations, with nanos of either sign,
\* whole microseconds or not.
WireValues ==
    {Proto(s, n) : s \in {0, 10, -10},
                   n \in {0, 500000000, -500000000, -1, 999999600}}
        \cup {Bytes(s, n) : s \in {0, 10, -10},
                            n \in {0, 500000000, -500000000, -1, 999999600}}

\* Modifiers of either sign, some finer than a microsecond, as numbers and
\* as texts.
FineModifiers ==
    {Num(T(0, 0)), Num(T(-1, 900000000)), Num(T(0, 600)), Num(T(-1, 999999400)),
     Text(<<"+", "6", "0", "0", "n", "s">>),
     Text(<<"-", "4", "0", "0", "n", "s">>)}

Args(value, modifier) == [value |-> value, modifier |-> modifier]

\* The arguments every conversion is called with.
Arguments ==
    {Args(Text(s), Num(T(0, 0))) : s \in OffsetInputs}
        \cup {Args(b, Text(m)) :
                  b \in ModifierBases,
                  m \in WellFormedModifiers \cup MalformedModifiers}
        \cup {Args(Text(s), m) : s \in SignedValues, m \in ModifierForms}
        \cup {Args(NOW, Text(s)) : s \in SignedValues}
        \cup {Args(v, m) : v \in InstantValues \cup WireValues,
                           m \in FineModifiers}

(***************************************************************************)
(* timediff: the difference of two instants in a unit.                     *)
(***************************************************************************)
\* utcnow_.as_datetime(end) - utcnow_.as_datetime(begin), in the unit, e and
\* b being what the two as_datetime returned or raised: end is evaluated
\* first, and the unit is looked at after both.
Difference(e, b, unit) ==
    IF e.kind # "datetime" THEN e
    ELSE IF b.kind # "datetime" THEN b
    ELSE InUnit(TSub(e.val, b.val), unit)

\* The values timediff is called with: numbers of seconds, a date and a
\* text that is no timestamp.
DiffValues ==
    {Num(T(0, 0)), Num(T(0, 249000)), Num(T(1, 500000000)),
     Num(T(86400, 0)), Num(T(604800, 0)), Text(DateText(1984, 8, 1)),
     Text(<<"x">>)}

\* The unit names timediff is called with.
DiffUnits ==
    {"nanoseconds", "ns", "microseconds", "us", "milliseconds", "ms",
     "seconds", "Seconds", "s", "minutes", "m", "hours", "h", "days", "d",
     "weeks", "W", "w", "months", ""}

\* utcnow.timediff(begin, end, unit).
CallTimediff(begin, end, unit) ==
    LET sc == TimediffScope(main, child, clock)
    IN  /\ req = NoReq
        /\ req' = [fn |-> "timediff", again |-> FALSE, unit |-> unit,
                   value |-> [tag |-> "pair", begin |-> begin, end |-> end]]
        /\ res' = Difference(
                      Convert("as_datetime", end, Num(T(0, 0)), sc, clock),
                      Convert("as_datetime", begin, Num(T(0, 0)), sc, clock),
                      unit)
        /\ main' = TimediffLeaves(main, sc)
        /\ UNCHANGED <<clock, child, lastOp, firstRead, runVars>>

(***************************************************************************)
(* as_date_string: the date of an instant at an offset from UTC.           *)
(***************************************************************************)
\* The names _timezone_from_string takes for UTC, in upper case.
UtcNames ==
    {<<"U", "T", "C">>, <<"G", "M", "T">>, <<"U", "T", "C", "+", "0">>,
     <<"U", "T", "C", "-", "0">>, <<"G", "M", "T", "+", "0">>,
     <<"G", "M", "T", "-", "0">>, <<"Z">>, <<"Z", "U", "L", "U">>,
     <<"0", "0", ":", "0", "0">>, <<"+", "0", "0", ":", "0", "0">>,
     <<"-", "0", "0", ":", "0", "0">>, <<"0", "0", "0", "0">>,
     <<"+", "0", "0", "0", "0">>, <<"-", "0", "0", "0", "0">>}

\* A timezone of a fixed offset, and the None of a text that names none.
Tz(offset) == [kind |-> "tz", offset |-> offset]

NoTz == [kind |-> "None"]

\* timedelta(hours=h, minutes=m) of the offset's digits, a whole day kept
\* whole.
OffsetWholeDay(minutes) == T(minutes * 60, 0)

\* timedelta(hours=h, minutes=m) of the offset's digits, a whole day made
\* timedelta(days=1, microseconds=-1).
OffsetTimedelta(minutes) ==
    IF minutes = 24 * 60 THEN TSub(T(SecPerDay, 0), T(0, NsPerUs))
    ELSE T(minutes * 60, 0)

\* timezone(offset): the offset is strictly between -24 and 24 hours.
Timezone(offset) ==
    IF /\ NotAfter(offset, TSub(T(SecPerDay, 0), T(0, NsPerUs)))
       /\ NotAfter(TSub(T(0, NsPerUs), T(SecPerDay, 0)), offset)
    THEN Tz(offset) ELSE ValueError

\* _timezone_from_string(value): UTC for one of its names, the timezone of
\* a text "+HH:MM" or "+HHMM" (of either sign), else None.
TimezoneFromString(value) ==
    IF UpperText(value) \in UtcNames THEN Tz(T(0, 0))
    ELSE IF value # <<>> /\ value[1] \in {"+", "-"}
    THEN LET body == Tail(value)
             digits == IF Len(body) = 5 /\ body[3] = ":"
                       THEN SubSeq(body, 1, 2) \o SubSeq(body, 4, 5)
                       ELSE body
             td == OffsetTimedelta(NumberOf(SubSeq(digits, 1, 2)) * 60
                                       + NumberOf(SubSeq(digits, 3, 4)))
         IN  IF Len(digits) # 4 \/ ~AllDigits(digits) THEN NoTz
             ELSE Timezone(IF value[1] = "+" THEN td
                           ELSE TSub(T(0, 0), td))
    ELSE NoTz

\* datetime.astimezone(tz).date().isoformat() of the instant t.
DateAt(t, tz) ==
    LET dt == FromTimestamp(TAdd(t, tz.offset))
    IN  DateText(dt.y, dt.mo, dt.d)

\* A returned text that is a date.
DateStr(s) == [kind |-> "date", val |-> s]

\* The end of as_date_string, date_tz being the timezone its tz resolved to
\* and d the datetime of its value (or what raised).
DateString(date_tz, d) ==
    IF date_tz.kind # "tz" THEN ValueError
    ELSE IF d.kind # "datetime" THEN d
    ELSE DateStr(DateAt(d.val, date_tz))

\* utcnow_.as_date_string(value, tz): tz is a text, the empty one for a tz
\* that is left out.
AsDateString(value, tz, mn, clk) ==
    DateString(IF tz = <<>> THEN Tz(T(0, 0)) ELSE TimezoneFromString(tz),
               IF value.tag = "now" THEN Datetime(SyncTime(mn, clk))
               ELSE ConvertValue("as_datetime", value, T(0, 0)))

\* The values as_date_string is called with: "now", instants at, next to
\* and away from midnight UTC, and a text that is no timestamp.
DateValues ==
    {NOW, Num(T(0, 0)), Num(T(0, 1000)), Num(T(43200, 0)),
     Num(T(86399, 999999000)),
     Text(FullText(2020, 1, 1, "T", 0, 0, 0, ".", 0, <<"Z">>)),
     Text(FullText(2020, 2, 29, "T", 23, 59, 59, ".", 999999, <<"Z">>)),
     Text(FullText(2020, 1, 1, "T", 0, 0, 0, ".", 0,
                   <<"+", "0", "2", ":", "0", "0">>)),
     Text(<<"x">>)}

\* The texts as_date_string is called with as its tz.
DateTimezones ==
    {<<>>, <<"U", "T", "C">>, <<"z">>, <<"C", "E", "T">>,
     <<"+", "2", "4", ":", "0", "0">>, <<"-", "2", "4", ":", "0", "0">>,
     <<"+", "2", "4", "0", "0">>, <<"+", "2", "3", ":", "6", "0">>,
     <<"+", "0", "2", ":", "0", "0">>, <<"-", "0", "1", "3", "0">>,
     <<"+", "2", "4", ":", "3", "0">>, <<"-", "2", "5", ":", "0", "0">>,
     <<"+", "2", ":", "0", "0">>}

\* utcnow.as_date_string(value, tz).
CallAsDateString(value, tz) ==
    /\ req = NoReq
    /\ req' = [fn |-> "as_date_string", again |-> FALSE, tz |-> tz,
               value |-> [tag |-> "date", of |-> value]]
    /\ res' = AsDateString(value, tz, main, clock)
    /\ UNCHANGED <<syncVars, runVars>>

(***************************************************************************)
(* The conversions as a state machine: a conversion is called with         *)
(* arguments drawn from the sets above and returns or raises; what it      *)
(* returned may then be passed to rfc3339_timestamp as a value.            *)
(***************************************************************************)
Request(fn, value, modifier, again) ==
    [fn |-> fn, value |-> value, modifier |-> modifier, again |-> again]

\* fn(value, modifier), called for the first time.
Invoke(fn, value, modifier) ==
    /\ req = NoReq
    /\ req' = Request(fn, value, modifier, FALSE)
    /\ res' = Convert(fn, value, modifier, main, clock)
    /\ UNCHANGED <<syncVars, runVars>>

CallRfc3339Timestamp(value, modifier) ==
    Invoke("rfc3339_timestamp", value, modifier)

CallAsDatetime(value, modifier) == Invoke("as_datetime", value, modifier)

CallAsUnixtime(value, modifier) == Invoke("as_unixtime", value, modifier)

CallAsProtobuf(value, modifier) == Invoke("as_protobuf", value, modifier)

\* What a conversion returned, as a value for another one.
AsValue(r) ==
    CASE r.kind = "str" -> Text(r.val)
      [] r.kind = "float" -> Num(r.val)
      [] r.kind = "message" -> Proto(r.seconds, r.nanos)

\* rfc3339_timestamp(r), r being what the previous call returned.
Again ==
    /\ req # NoReq /\ ~req.again
    /\ res.kind \in {"str", "float", "message"}
    /\ req' = Request("rfc3339_timestamp", AsValue(res), Num(T(0, 0)), TRUE)
    /\ res' = Convert("rfc3339_timestamp", AsValue(res), Num(T(0, 0)),
                      main, clock)
    /\ UNCHANGED <<syncVars, runVars>>

ConvNext ==
    \/ \E s \in TextInputs : CallRfc3339Timestamp(Text(s), Num(T(0, 0)))
    \/ \E a \in Arguments : CallRfc3339Timestamp(a.value, a.modifier)
    \/ \E a \in Arguments : CallAsDatetime(a.value, a.modifier)
    \/ \E a \in Arguments : CallAsUnixtime(a.value, a.modifier)
    \/ \E a \in Arguments : CallAsProtobuf(a.value, a.modifier)
    \/ \E b \in DiffValues, e \in DiffValues, unit \in DiffUnits :
          CallTimediff(b, e, unit)
    \/ \E v \in DateValues, tz \in DateTimezones : CallAsDateString(v, tz)
    \/ Again

ConvSpec == Init /\ [][ConvNext]_vars

(***************************************************************************)
(* The conversions with their caches: functools.lru_cache keeps what a     *)
(* function returned for an argument and returns it again, the same        *)
(* object, until the entry is evicted; a call that raises stores nothing.  *)
(* (_is_numeric and _init_modifier_lru are cached too; what they return is *)
(* immutable and is computed again here.)                                  *)
(***************************************************************************)
\* A cache f with v stored for the argument k, and with k evicted.
Put(f, k, v) == [x \in DOMAIN f \cup {k} |-> IF x = k THEN v ELSE f[x]]

Drop(f, k) ==
    IF DOMAIN f \subseteq {k} THEN <<>> ELSE [x \in DOMAIN f \ {k} |-> f[x]]

\* What a cached function returned or raised, and the caches as it leaves
\* them.
Returned(val, mm) == [val |-> val, memo |-> mm]

\* The end of a call that missed the cache name: r is what the function
\* computed, stored unless it is an exception.
Stored(name, key, r, mm) ==
    Returned(r, IF r.kind \in {"ValueError", "OverflowError"} THEN mm
                ELSE [mm EXCEPT ![name] = Put(@, key, r)])

\* _transform_value(value) through its cache.
CachedTransformValue(value, mm) ==
    IF value \in DOMAIN mm.transform THEN Returned(mm.transform[value], mm)
    ELSE Stored("transform", value, TransformValue(value), mm)

\* The body of _timestamp_to_datetime, t being what _transform_value
\* returned (the datetime is held as its instant).
DatetimeOf(value, t) ==
    Stored("datetime", value, TextToUnixtime(t.val), t.memo)

\* _timestamp_to_datetime(value) through its cache.
CachedTimestampToDatetime(value, mm) ==
    IF value \in DOMAIN mm.datetime THEN Returned(mm.datetime[value], mm)
    ELSE DatetimeOf(value, CachedTransformValue(value, mm))

\* The body of _timestamp_to_unixtime, d being what _timestamp_to_datetime
\* returned.
UnixtimeOf(value, d) == Stored("unixtime", value, d.val, d.memo)

\* _timestamp_to_unixtime(value) through its cache.
CachedTimestampToUnixtime(value, mm) ==
    IF value \in DOMAIN mm.unixtime THEN Returned(mm.unixtime[value], mm)
    ELSE UnixtimeOf(value, CachedTimestampToDatetime(value, mm))

\* _unixtime_to_protobuf(u.val) through its cache, u being what
\* _timestamp_to_unixtime returned: a hit returns the message that the
\* cache holds.
CachedUnixtimeToProtobuf(u) ==
    IF u.val.kind # "float" THEN u
    ELSE IF u.val.val \in DOMAIN u.memo.protobuf
    THEN Returned(u.memo.protobuf[u.val.val], u.memo)
    ELSE Stored("protobuf", u.val.val, UnixtimeToProtobuf(u.val.val), u.memo)

\* The values the cached conversions are called with: 1.5, its canonical
\* text and a text that is no timestamp.
CacheValues ==
    {Num(T(1, 500000000)),
     Text(FullText(1970, 1, 1, "T", 0, 0, 1, ".", 500000, <<"Z">>)),
     Text(<<"x">>)}

\* The seconds a caller writes into a message it was returned.
WrittenSeconds == {99}

\* A call returns r.val and leaves the caches r.memo.
Return(fn, value, r) ==
    /\ req' = Request(fn, value, Num(T(0, 0)), FALSE)
    /\ res' = r.val
    /\ memo' = r.memo
    /\ UNCHANGED <<syncVars, thread>>

\* utcnow.rfc3339_timestamp(value) and utcnow.as_protobuf(value) of a value
\* that is not "now", with no modifier.
CachedRfc3339Timestamp(value) ==
    Return("rfc3339_timestamp", value, CachedTransformValue(value, memo))

CachedAsProtobuf(value) ==
    Return("as_protobuf", value,
           CachedUnixtimeToProtobuf(CachedTimestampToUnixtime(value, memo)))

\* utcnow.rfc3339_timestamp() and utcnow.as_protobuf(): "now" is read from
\* the synchronizer.
CallNow(fn) ==
    Return(fn, NOW, Returned(Convert(fn, NOW, Num(T(0, 0)), main, clock),
                             memo))

\* A caller writes the field seconds of a message that as_protobuf returned
\* to it and that the cache still holds.
ModifyReturned(key, seconds) ==
    /\ key \in DOMAIN memo.protobuf
    /\ memo' = [memo EXCEPT !.protobuf[key].seconds = seconds]
    /\ UNCHANGED <<syncVars, convVars, thread>>

\* The cache name evicts the entry of key (other calls have filled it).
Evict(name, key) ==
    /\ key \in DOMAIN memo[name]
    /\ memo' = [memo EXCEPT ![name] = Drop(@, key)]
    /\ UNCHANGED <<syncVars, convVars, thread>>

CacheNext ==
    \/ \E v \in CacheValues : CachedRfc3339Timestamp(v)
    \/ \E v \in CacheValues : CachedAsProtobuf(v)
    \/ \E fn \in {"rfc3339_timestamp", "as_protobuf"} : CallNow(fn)
    \/ \E k \in DOMAIN memo.protobuf, s \in WrittenSeconds : ModifyReturned(k, s)
    \/ \E name \in DOMAIN memo : \E k \in DOMAIN memo[name] : Evict(name, k)
    \/ \E d \in TickNs : Tick(d)
    \/ Enter(Main)
    \/ Exit(Main, FALSE)

CacheSpec == Init /\ [][CacheNext]_vars

(***************************************************************************)
(* Two threads call timediff("now", "now"). The library takes no lock, so  *)
(* the threads interleave between the statements of timediff and of        *)
(* __enter__ that read or write the singleton.                             *)
(***************************************************************************)
\* Thread t is at step pc of its call.
AtStep(t, pc) == thread[t].pc = pc

\* timediff tests synchronizer.frozen: it opens a scope of its own when none
\* is active, and computes in the active one otherwise.
ThreadStart(t) ==
    /\ AtStep(t, "idle")
    /\ thread' = [thread EXCEPT ![t] =
                     IF main.frozen
                     THEN ThreadAt("end", FALSE, Unset, Unset, "none")
                     ELSE ThreadAt("enter", TRUE, Unset, Unset, "none")]
    /\ UNCHANGED <<syncVars, convVars, memo>>

\* __enter__ tests _frozen and raises RuntimeError when a scope is active;
\* the exception leaves timediff, whose with block was not entered.
ThreadEnter(t) ==
    /\ AtStep(t, "enter")
    /\ thread' = [thread EXCEPT ![t] =
                     IF main.frozen
                     THEN ThreadAt("done", TRUE, Unset, Unset, "RuntimeError")
                     ELSE ThreadAt("freeze", TRUE, Unset, Unset, "none")]
    /\ UNCHANGED <<syncVars, convVars, memo>>

\* The rest of __enter__, after its test has passed: it samples the clock
\* and sets _frozen, whatever another thread has done since the test.
ThreadFreeze(t) ==
    /\ AtStep(t, "freeze")
    /\ main' = MainEnter([main EXCEPT !.frozen = FALSE], child, clock).main
    /\ thread' = [thread EXCEPT ![t].pc = "end"]
    /\ UNCHANGED <<clock, child, lastOp, firstRead, convVars, memo>>

\* as_datetime(end), then as_datetime(begin) and the subtraction: each reads
\* the singleton as it is at that moment.
ThreadRead(t) ==
    /\ \/ /\ AtStep(t, "end")
          /\ thread' = [thread EXCEPT
                           ![t].pc = "begin",
                           ![t].e = AsDatetimeNow(0, main, clock)]
       \/ /\ AtStep(t, "begin")
          /\ thread' = [thread EXCEPT
                           ![t].pc = IF thread[t].scoped THEN "exit" ELSE "done",
                           ![t].val = TSub(thread[t].e,
                                           AsDatetimeNow(0, main, clock)),
                           ![t].out = IF thread[t].scoped THEN "none" ELSE "ok"]
    /\ UNCHANGED <<syncVars, convVars, memo>>

\* The with block of timediff is left: __exit__, and timediff returns.
ThreadExit(t) ==
    /\ AtStep(t, "exit")
    /\ main' = MainExit(main)
    /\ thread' = [thread EXCEPT ![t].pc = "done", ![t].out = "ok"]
    /\ UNCHANGED <<clock, child, lastOp, firstRead, convVars, memo>>

ThreadNext ==
    \/ \E t \in Threads : ThreadStart(t)
    \/ \E t \in Threads : ThreadEnter(t)
    \/ \E t \in Threads : ThreadFreeze(t)
    \/ \E t \in Threads : ThreadRead(t)
    \/ \E t \in Threads : ThreadExit(t)
    \/ \E d \in TickNs : Tick(d)

ThreadSpec == Init /\ [][ThreadNext]_vars

(***************************************************************************)
(* The claims.                                                             *)
(***************************************************************************)
Dead == {"deactivated", "expired"}

\* What a "now" read through acc returns when nothing is frozen.
LiveNow(acc, clk) == ReadNow(acc, 0, NewMain, clk)

\* C1: while a scope is active, every plain "now" read, through any accessor
\* and whatever the host clock shows, returns the instant the first read of
\* the scope returned.
C1_FrozenReadsAgree ==
    (main.frozen /\ firstRead # Unset) =>
        /\ \A acc \in Accessors : ReadNow(acc, 0, main, clock) = firstRead
        /\ (lastOp.op = "read" /\ lastOp.m = 0) => lastOp.val = firstRead

\* A scope in which a read was taken, the host clock advanced, and a later
\* read returned the same instant, which is not what the host clock shows.
C1_Witness ==
    /\ main.frozen
    /\ firstRead # Unset
    /\ lastOp.op = "read" /\ lastOp.m = 0 /\ lastOp.val = firstRead
    /\ lastOp.at = clock
    /\ TimeNsNow(clock) # firstRead

\* C2: while a scope is active, constructing a child through the main handle
\* raises RuntimeError, and so does entering the main handle or any child.
C2_NoNesting ==
    main.frozen =>
        /\ \A v \in Values, m \in Modifiers :
               CallResult(Main, v, m, main, child, clock).out = "RuntimeError"
        /\ \A h \in Held :
               EnterResult(h, main, child, clock).out = "RuntimeError"
        /\ lastOp.op = "call" => lastOp.out = "RuntimeError"

\* A nested entry was tried inside an active scope and raised.
C2_Witness ==
    /\ main.frozen
    /\ lastOp.op = "enter" /\ lastOp.who = Main /\ lastOp.pre = "main active"
    /\ lastOp.out = "RuntimeError"

\* C3: entering a deactivated or expired child raises RuntimeError in every
\* reachable state, and such a child never becomes pending or active again.
C3_DeadStaysDead ==
    /\ [](\A c \in Made :
              Status(c) \in Dead =>
                  EnterResult(c, main, child, clock).out = "RuntimeError")
    /\ [][\A c \in Children : Status(c) \in Dead => Status(c)' \in Dead]_vars

\* One child is deactivated, another expired, and the entry of an expired
\* one was tried while no scope was active, and raised.
C3_Witness ==
    /\ \E c, d \in Made : Status(c) = "deactivated" /\ Status(d) = "expired"
    /\ ~main.frozen
    /\ lastOp.op = "enter" /\ lastOp.pre = "expired"
    /\ lastOp.out = "RuntimeError"

\* C4: after an active scope is exited, its body having raised or not, the
\* singleton is not frozen, "now" reads are those of the live clock, and the
\* child that owned the scope is deactivated.
C4_ExitUnfreezes ==
    (lastOp.op = "exit" /\ lastOp.pre \in {"active", "main active"}) =>
        /\ ~main.frozen
        /\ \A acc \in Accessors :
               ReadNow(acc, 0, main, clock) = LiveNow(acc, clock)
        /\ lastOp.who \in Children => Status(lastOp.who) = "deactivated"
        /\ \A c \in Made : child[c].frozen => Status(c) = "deactivated"

\* A child's scope was exited with its body having raised, and the live
\* clock is read again, not the instant the scope was frozen at.
C4_Witness ==
    /\ lastOp.op = "exit" /\ lastOp.pre = "active" /\ lastOp.out = "raised"
    /\ Status(lastOp.who) = "deactivated"
    /\ ReadNow("time_ns", 0, main, clock) # main.time_ns

\* C5: while a child is pending the singleton is not frozen and "now" reads
\* are live; once it is entered, they return the instant it was constructed
\* for, whatever the host clock shows.
C5_PendingThenCandidate ==
    \A c \in Made :
        /\ Status(c) = "pending" =>
               /\ ~main.frozen
               /\ \A acc \in Accessors :
                      ReadNow(acc, 0, main, clock) = LiveNow(acc, clock)
        /\ Status(c) = "active" =>
               \A acc \in Accessors :
                   ReadNow(acc, 0, main, clock) = child[c].args.instant

\* A child constructed for now plus fifteen minutes is active, the host
\* clock has advanced since its construction, and a read taken now returned
\* the instant of its construction plus fifteen minutes.
C5_Witness ==
    \E c \in Made :
        /\ Status(c) = "active"
        /\ child[c].args.value = NOW /\ child[c].args.modifier = 900
        /\ child[c].args.instant # Candidate(NOW, 900, clock)
        /\ lastOp.op = "read" /\ lastOp.m = 0 /\ lastOp.at = clock
        /\ lastOp.val = child[c].args.instant

\* C6: a child that was constructed and never entered is expired once a
\* child constructed after it has been entered: the later child is active,
\* the singleton is frozen at the instant that child was constructed for,
\* and entering the older child raises RuntimeError.
C6_SupersededIsExpired ==
    /\ (lastOp.op = "enter" /\ lastOp.out = "ok" /\ lastOp.who \in Children) =>
           /\ Status(lastOp.who) = "active"
           /\ main.time_ns = child[lastOp.who].args.instant
           /\ main.datetime = child[lastOp.who].args.instant
    /\ \A a \in Made, b \in Made :
           (a < b /\ child[b].frozen /\ ~child[a].frozen) =>
               /\ Status(a) = "expired"
               /\ EnterResult(a, main, child, clock).out = "RuntimeError"

\* Two children were constructed one after the other, the older one never
\* entered; the younger one has just been entered and owns the scope, frozen
\* at its own instant and not at the older child's.
C6_Witness ==
    \E a \in Made, b \in Made :
        /\ a < b /\ ~child[a].frozen /\ Status(a) = "expired"
        /\ lastOp.op = "enter" /\ lastOp.who = b /\ lastOp.out = "ok"
        /\ Status(b) = "active"
        /\ child[a].args.instant # child[b].args.instant
        /\ main.time_ns = child[b].args.instant

\* The scope states in which no scope is active when an operation starts.
NoScope == {"main", "pending"}

\* C7: a timediff of two "now" endpoints, called while no scope is active,
\* is exactly the difference of the endpoints' modifiers (0.0 for
\* now..now, 3600.0 for now..now+1h), however far the host clock advances
\* between the evaluation of the two endpoints.
C7_TimediffOneReading ==
    /\ (lastOp.op = "timediff" /\ lastOp.out = "ok"
            /\ lastOp.pre \in NoScope) =>
           lastOp.val = Seconds(lastOp.e.m - lastOp.b.m)
    /\ ~main.frozen =>
           \A b \in Endpoints, e \in Endpoints :
               \A d1 \in TickNs \cup {0}, d2 \in TickNs \cup {0} :
                   TimediffResult(b, e, main, child, clock, d1, d2).val
                       = Seconds(e.m - b.m)

\* A timediff of now and now plus one hour ran with no scope active, the
\* host clock advanced between its two endpoints, and it returned 3600.0.
C7_Witness ==
    /\ lastOp.op = "timediff" /\ lastOp.pre \in NoScope
    /\ lastOp.b.m = 0 /\ lastOp.e.m = 3600
    /\ lastOp.adv > 0
    /\ lastOp.val = Seconds(3600)
    /\ ~main.frozen

\* C8: timediff does not change the synchronizer: a child pending before
\* the call is pending after it, and entering it then succeeds and freezes
\* the instant it was constructed for; a scope active before the call is
\* active after it with the same frozen instant.
C8_TimediffKeepsState ==
    [][\A b \in Endpoints, e \in Endpoints :
           \A d1 \in TickNs \cup {0}, d2 \in TickNs \cup {0} :
               Timediff(b, e, d1, d2) =>
                   /\ \A c \in Made :
                          Status(c) = "pending" =>
                              /\ StatusIn(c, main', child') = "pending"
                              /\ EnterResult(c, main', child', clock').out
                                     = "ok"
                              /\ EnterResult(c, main', child',
                                             clock').main.time_ns
                                     = child[c].args.instant
                   /\ main.frozen =>
                          /\ main'.frozen
                          /\ main'.controller = main.controller
                          /\ main'.time_ns = main.time_ns
                          /\ main'.datetime = main.datetime]_vars

\* C9: inside an active scope a "now" read with modifier m is the frozen
\* instant plus exactly m, through every conversion, and the timediff of a
\* plain read and a read with modifier m is exactly m seconds (900.0 for
\* "+15m"), whether the scope froze the entry time or a given value.
C9_ModifierOnFrozenNow ==
    (main.frozen /\ firstRead # Unset) =>
        /\ \A acc \in Converters, m \in Modifiers :
               /\ ReadNow(acc, m, main, clock) = TAdd(firstRead, Seconds(m))
               /\ TimediffResult(At(firstRead),
                                 At(ReadNow(acc, m, main, clock)),
                                 main, child, clock, 0, 0).val = Seconds(m)
        /\ lastOp.op = "read" =>
               lastOp.val = TAdd(firstRead, Seconds(lastOp.m))

\* In a scope opened by a child constructed from a given timestamp, after a
\* plain read, a read with the modifier of fifteen minutes returned a value
\* 900 seconds after the plain read, the host clock having advanced.
C9_Witness ==
    /\ main.frozen /\ firstRead # Unset
    /\ main.controller # None
    /\ child[main.controller].args.value.tag = "ts"
    /\ lastOp.op = "read" /\ lastOp.m = 900
    /\ lastOp.at # T(0, 0)
    /\ TSub(lastOp.val, firstRead) = Seconds(900)

\* C10: calling a child handle raises RuntimeError whatever state the child
\* is in and whatever the arguments; a call that constructs a child is a
\* call of the main handle.
C10_OnlyMainConstructs ==
    /\ \A c \in Made, v \in Values, m \in Modifiers :
           CallResult(c, v, m, main, child, clock).out = "RuntimeError"
    /\ (lastOp.op = "call" /\ lastOp.who \in Children) =>
           lastOp.out = "RuntimeError"
    /\ (lastOp.op = "call" /\ lastOp.out = "ok") => lastOp.who = Main

\* A pending child was called and the call raised RuntimeError, while
\* another child is deactivated and the pending one is still pending.
C10_Witness ==
    /\ lastOp.op = "call" /\ lastOp.who \in Children
    /\ lastOp.pre = "pending" /\ lastOp.out = "RuntimeError"
    /\ Status(lastOp.who) = "pending"
    /\ \E d \in Made : Status(d) = "deactivated"


(***************************************************************************)
(* The claims about the conversions.                                       *)
(***************************************************************************)
\* A conversion fn was called with a text value and has returned or raised.
Called(fn) == req # NoReq /\ req.fn = fn /\ req.value.tag = "text"

\* The canonical string format: "YYYY-MM-DDTHH:mm:ss.ffffffZ", 27
\* characters, digits wherever the shape has a letter.
Canonical(s) ==
    /\ Len(s) = 27
    /\ \A i \in 1 .. 27 :
           CASE i \in {5, 8} -> s[i] = "-"
             [] i = 11 -> s[i] = "T"
             [] i \in {14, 17} -> s[i] = ":"
             [] i = 20 -> s[i] = "."
             [] i = 27 -> s[i] = "Z"
             [] OTHER -> IsDigit(s[i])

\* C11: every text rfc3339_timestamp returns for a text value is a
\* canonical string: 27 characters, digits in every digit position, "-"
\* at positions 4 and 7, "T" at 10, ":" at 13 and 16, "." at 19 and "Z" at
\* 26 (counted from 0); any other text raises.
C11_CanonicalOrError ==
    (Called("rfc3339_timestamp") /\ res.kind = "str") => Canonical(res.val)

\* The two digits of the text s from position i (counted from 1).
Two(s, i) == NumberOf(SubSeq(s, i, i + 1))

\* A canonical string that names an instant: a date of the calendar from the
\* year 1 on, a time of the day.
ValidCanonical(s) ==
    /\ Canonical(s)
    /\ ValidFields(NumberOf(SubSeq(s, 1, 4)), Two(s, 6), Two(s, 9),
                   Two(s, 12), Two(s, 15), Two(s, 18),
                   NumberOf(SubSeq(s, 21, 26)))

\* rfc3339_timestamp was called on the text that a conversion returned.
CalledAgain ==
    req # NoReq /\ req.again /\ req.value.tag = "text"

GregorianDays(y, m) ==
    IF m = 2
    THEN IF (y % 4 = 0 /\ y % 100 # 0) \/ y % 400 = 0 THEN 29 ELSE 28
    ELSE IF m \in {4, 6, 9, 11} THEN 30 ELSE 31

\* rfc3339_timestamp was called on a date, bare or in the full shape.
CalledOnDate ==
    /\ Called("rfc3339_timestamp") /\ ~req.again
    /\ req.modifier = Num(T(0, 0))
    /\ req.value.s \in DateInputs

\* The date of the text the call was made with is one of the calendar.
DateOfCalendar ==
    LET y == NumberOf(SubSeq(req.value.s, 1, 4))
        m == Two(req.value.s, 6)
        d == Two(req.value.s, 9)
    IN  m \in 1 .. 12 /\ d \in 1 .. GregorianDays(y, m)

\* C13: a date Y-M-D, bare or inside the full shape, is accepted if and
\* only if M is a month and D a day of that month in the year Y under the
\* Gregorian leap-year rule; otherwise the parse raises.
C13_DateAcceptedIffCalendar ==
    CalledOnDate => (res.kind = "str" <=> DateOfCalendar)

\* The minutes east of UTC that the offset of a text stands for: none
\* without an offset or with "Z".
OffsetMinutes(off) ==
    LET o == IF off # <<>> /\ off[1] = " " THEN Tail(off) ELSE off
        minutes == NumberOf(SubSeq(o, 2, 3)) * 60
                       + NumberOf(SubSeq(o, Len(o) - 1, Len(o)))
    IN  IF o \in {<<>>, <<"Z">>} THEN 0
        ELSE IF o[1] = "-" THEN -minutes ELSE minutes

\* The instant that the calendar fields of b, with a fraction, name in UTC
\* when read at an offset: the fields less the offset.
InstantAtOffset(b, frac, off) ==
    T(DaysFromCivil(b[1], b[2], b[3]) * SecPerDay + b[4] * 3600 + b[5] * 60
          - OffsetMinutes(off) * 60,
      IF frac = <<>> THEN 0 ELSE 250000000)

\* A conversion was called on the text of b with this fraction and offset.
CalledAtOffset(b, sep, frac, off) ==
    /\ req # NoReq /\ ~req.again
    /\ req.value = Text(OffsetText(b, sep, frac, off))
    /\ req.modifier = Num(T(0, 0))

\* C14: a text with an offset +HH:MM or -HH:MM parses to the instant of its
\* calendar fields less the offset, across the boundary of a day where the
\* subtraction crosses it, and a text without an offset is taken as UTC.
C14_OffsetSubtracted ==
    \A b \in OffsetBases, sep \in {"T", " "}, frac \in OffsetFractions,
       off \in Offsets \ {<<"+", "2", "4", ":", "0", "0">>} :
        CalledAtOffset(b, sep, frac, off) =>
            LET t == InstantAtOffset(b, frac, off)
            IN  CASE req.fn = "rfc3339_timestamp" ->
                         res = Str(IsoFormatZ(FromTimestamp(t)))
                  [] req.fn = "as_datetime" -> res = Datetime(t)
                  [] req.fn = "as_unixtime" -> res = Float(t)
                  [] req.fn = "as_protobuf" -> res = Message(t.s, t.n)

\* Half past midnight on the first of January at +01:00 came out as half
\* past eleven on the last of December.
C14_Witness ==
    /\ CalledAtOffset(<<2021, 1, 1, 0, 30>>, "T", <<>>,
                      <<"+", "0", "1", ":", "0", "0">>)
    /\ req.fn = "rfc3339_timestamp"
    /\ res = Str(FullText(2020, 12, 31, "T", 23, 30, 0, ".", 0, <<"Z">>))

\* Ten times the number that a text of ModifierNumbers denotes.
Tenths(number) ==
    CASE number = <<"7">> -> 70
      [] number = <<"1", "0">> -> 100
      [] number = <<"1", ".", "5">> -> 15
      [] number = <<".", "4">> -> 4
      [] number = <<"0">> -> 0

\* number * multiplier(unit) seconds, for a number given in tenths; what
\* is finer than a nanosecond is cut.
UnitShift(tenths, unit) ==
    LET whole(k) == T((tenths * k) \div 10, ((tenths * k) % 10) * 100000000)
    IN  CASE unit = <<"n", "s">> -> T(0, tenths \div 10)
          [] unit = <<"u", "s">> -> T(0, tenths * 100)
          [] unit = <<"m", "s">> -> T(0, tenths * 100000)
          [] unit = <<"s">> -> whole(1)
          [] unit = <<"m">> -> whole(60)
          [] unit = <<"h">> -> whole(3600)
          [] unit = <<"d">> -> whole(86400)

\* sign * number * multiplier(unit) seconds.
SignedShift(sign, number, unit) ==
    LET shift == UnitShift(Tenths(number), unit)
    IN  IF sign = <<"-">> THEN TNorm(-shift.s, -shift.n) ELSE shift

\* The instant of a value of ModifierBases.
BaseInstant(b) ==
    IF b.tag = "num" THEN b.t
    ELSE T(DaysFromCivil(2022, 10, 17) * SecPerDay + 15 * 3600 + 15 * 60 + 22,
           556084000)

\* A conversion was called on a base with the text modifier
\* <sign><number><unit>.
CalledWithModifier(b, sign, number, unit) ==
    /\ req # NoReq /\ ~req.again
    /\ req.value = b
    /\ req.modifier = Text(sign \o number \o unit)

\* C15: a text modifier <sign><number><unit> shifts the base instant by
\* sign * number * multiplier(unit) seconds, the multipliers being 1e-9 for
\* ns, 1e-6 for us, 1e-3 for ms, 1 for s, 60 for m, 3600 for h and 86400 for
\* d, and a unit of two characters being matched before one of one.
C15_ModifierShifts ==
    \A b \in ModifierBases, sign \in {<<>>, <<"+">>, <<"-">>},
       number \in ModifierNumbers, unit \in Units1 \cup Units2 :
        CalledWithModifier(b, sign, number, unit) =>
            LET t == TAdd(BaseInstant(b), SignedShift(sign, number, unit))
            IN  CASE req.fn = "rfc3339_timestamp" ->
                         res = Str(IsoFormatZ(FromTimestamp(t)))
                  [] req.fn = "as_unixtime" -> res = Float(t)
                  [] OTHER -> res.kind \in {"datetime", "message"}

\* The epoch with "+7d" came out as the eighth of January 1970.
C15_Witness ==
    /\ CalledWithModifier(Num(T(0, 0)), <<"+">>, <<"7">>, <<"d">>)
    /\ req.fn = "rfc3339_timestamp"
    /\ res = Str(FullText(1970, 1, 8, "T", 0, 0, 0, ".", 0, <<"Z">>))

\* rfc3339_timestamp was called on a base with the modifier ".4".
CalledWithFraction(b) ==
    /\ CalledWithModifier(b, <<>>, <<".", "4">>, <<>>)
    /\ req.fn = "rfc3339_timestamp"

\* C16, as the code has it: a modifier of the bare form ".<digits>" adds
\* that fraction of a second to the base instant, as any other number of
\* seconds.
C16_FractionAdded ==
    \A b \in ModifierBases :
        CalledWithFraction(b) =>
            res = Str(IsoFormatZ(FromTimestamp(
                      TAdd(BaseInstant(b), T(0, 400000000)))))

\* C16, as the spec has it: a modifier of the bare form ".<digits>"
\* overwrites the fraction of the second of the base instant.
C16_FractionOverwritten ==
    \A b \in ModifierBases :
        CalledWithFraction(b) =>
            res = Str(IsoFormatZ(FromTimestamp(
                      T(BaseInstant(b).s, 400000000))))

\* 15:15:22.556084 with ".4" came out as 15:15:22.956084.
C16_Witness ==
    /\ \E b \in ModifierBases : b.tag = "text" /\ CalledWithFraction(b)
    /\ res = Str(FullText(2022, 10, 17, "T", 15, 15, 22, ".", 956084, <<"Z">>))

\* A conversion was called on a text that starts with a sign and ends in a
\* unit of MODIFIER_MUL.
CalledOnSignedText ==
    /\ req # NoReq /\ ~req.again
    /\ req.value.tag = "text" /\ req.value.s # <<>>
    /\ req.value.s[1] \in {"+", "-"}
    /\ \E unit \in Units1 \cup Units2 : EndsWith(req.value.s, unit)

\* C17: a conversion of a text value that starts with "+" or "-" and ends
\* in a unit, without a modifier (0 or None), returns what the conversion of
\* "now" with that text as the modifier returns; with a modifier that is
\* not zero the text is parsed as a timestamp, which it is not.
C17_SignedValueIsModifier ==
    CalledOnSignedText =>
        /\ req.modifier \in {Num(T(0, 0)), NoneModifier} =>
               res = Convert(req.fn, NOW, req.value, main, clock)
        /\ req.modifier \in {Num(T(1, 0)), Text(<<"+", "1", "s">>)} =>
               res = ValueError

\* as_unixtime("+7d") returned seven days from now.
C17_Witness ==
    /\ CalledOnSignedText
    /\ req.fn = "as_unixtime"
    /\ req.value = Text(<<"+", "7", "d">>)
    /\ req.modifier = NoneModifier
    /\ res = Float(TAdd(AsUnixtimeNow(0, main, clock), T(7 * SecPerDay, 0)))

\* The text modifiers of the model that are malformed: those without a
\* number or with a number that is none, the empty text among them, and
\* those with a unit that is no key of MODIFIER_MUL.
Malformed ==
    MalformedModifiers
        \cup {sign \o number \o <<"x">> :
                  sign \in {<<>>, <<"+">>, <<"-">>}, number \in ModifierNumbers}

\* A conversion was called on a base with a malformed text modifier.
CalledWithMalformed ==
    /\ req # NoReq /\ ~req.again
    /\ req.value \in ModifierBases
    /\ req.modifier.tag = "text" /\ req.modifier.s \in Malformed

\* C18: a call with a malformed text modifier (empty, a unit without a
\* number, an unknown unit, a number part that is no number) fails with
\* ValueError and with no other exception.
C18_MalformedIsValueError == CalledWithMalformed => res = ValueError

\* as_protobuf was called and returned a message.
ProtobufReturned ==
    req # NoReq /\ ~req.again /\ req.fn = "as_protobuf" /\ res.kind = "message"

\* C19: for every value and modifier the message as_protobuf returns has
\* 0 <= nanos < 1_000_000_000, nanos a multiple of 1000, and seconds +
\* nanos / 1e9 the instant rounded to the microsecond (checked where value
\* and modifier are numbers, the instant being their sum).
C19_ProtobufNormalized ==
    ProtobufReturned =>
        /\ res.nanos >= 0 /\ res.nanos < NsPerSec
        /\ res.nanos % NsPerUs = 0
        /\ (req.value.tag = "num" /\ req.modifier.tag = "num") =>
               TNorm(res.seconds, res.nanos)
                   = RoundUs(TAdd(req.value.t, req.modifier.t))

\* fn was called, without a modifier, on a Timestamp message or on its
\* serialization.
CalledOnWire(fn) ==
    /\ req # NoReq /\ ~req.again /\ req.fn = fn
    /\ req.value.tag \in {"proto", "bytes"}
    /\ req.modifier = Num(T(0, 0))

\* The instant seconds + nanos / 1e9 of the wire timestamp the call was
\* made with, negative nanos carried into the seconds, to the microsecond
\* of the canonical string.
WireInstant == RoundUs(TNorm(req.value.seconds, req.value.nanos))

\* C20: a wire timestamp (seconds, nanos), as a message or as bytes, with
\* nanos of either sign, parses to the canonical string of the instant
\* seconds + nanos / 1e9, and as_protobuf of it returns the pair with
\* nanos >= 0 that denotes this instant.
C20_WireTimestampParsed ==
    /\ CalledOnWire("rfc3339_timestamp") =>
           /\ res = Str(IsoFormatZ(FromTimestamp(WireInstant)))
           /\ Canonical(res.val)
    /\ CalledOnWire("as_protobuf") =>
           /\ res = Message(WireInstant.s, WireInstant.n)
           /\ res.nanos >= 0

\* The bytes of (10, -500000000) came out as nine and a half seconds after
\* the epoch.
C20_Witness ==
    /\ CalledOnWire("rfc3339_timestamp")
    /\ req.value = Bytes(10, -500000000)
    /\ res = Str(FullText(1970, 1, 1, "T", 0, 0, 9, ".", 500000, <<"Z">>))

\* timediff was called with two endpoints that are timestamps.
CalledTimediff ==
    /\ req # NoReq /\ req.fn = "timediff"
    /\ req.value.begin # Text(<<"x">>) /\ req.value.end # Text(<<"x">>)

\* The instant a value of DiffValues names.
InstantOf(v) ==
    IF v.tag = "num" THEN v.t ELSE Timestamp(DT(1984, 8, 1, 0, 0, 0, 0))

\* The unit a recognized name stands for, in any case of its letters.
UnitOf(name) ==
    CASE name \in {"nanoseconds", "ns"} -> "nanoseconds"
      [] name \in {"microseconds", "us"} -> "microseconds"
      [] name \in {"milliseconds", "ms"} -> "milliseconds"
      [] name \in {"seconds", "Seconds", "s"} -> "seconds"
      [] name \in {"minutes", "m"} -> "minutes"
      [] name \in {"hours", "h"} -> "hours"
      [] name \in {"days", "d"} -> "days"
      [] name \in {"weeks", "W", "w"} -> "weeks"
      [] OTHER -> "unrecognized"

\* delta seconds divided by the scale of the unit, the scales being 1e-9,
\* 1e-6, 1e-3, 1, 60, 3600, 86400 and 604800 seconds.
Scaled(delta, unit) ==
    CASE unit = "nanoseconds" -> Whole(delta)
      [] unit = "microseconds" -> Quotient(delta, 1000000, 1)
      [] unit = "milliseconds" -> Quotient(delta, 1000, 1)
      [] unit = "seconds" -> Quotient(delta, 1, 1)
      [] unit = "minutes" -> Quotient(delta, 1, 60)
      [] unit = "hours" -> Quotient(delta, 1, 3600)
      [] unit = "days" -> Quotient(delta, 1, 86400)
      [] unit = "weeks" -> Quotient(delta, 1, 604800)

\* The parts of C21 for the units other than the nanoseconds.
C21_OtherUnits ==
    (CalledTimediff /\ UnitOf(req.unit) # "nanoseconds") =>
        LET delta == TSub(InstantOf(req.value.end), InstantOf(req.value.begin))
        IN  IF UnitOf(req.unit) = "unrecognized" THEN res = ValueError
            ELSE res = Scaled(delta, UnitOf(req.unit))

\* What timediff returns is the negation of what it returns for the
\* endpoints exchanged.
C21_Antisymmetric ==
    (CalledTimediff /\ UnitOf(req.unit) # "unrecognized") =>
        res.val = TSub(T(0, 0),
                       Difference(Datetime(InstantOf(req.value.begin)),
                                  Datetime(InstantOf(req.value.end)),
                                  req.unit).val)

\* C21: timediff(begin, end, unit) returns end - begin in seconds divided by
\* the scale of the unit for every recognized unit name, so that
\* timediff(a, b) is -timediff(b, a), and raises ValueError for a name that
\* is not recognized.
C21_TimediffInUnit ==
    CalledTimediff =>
        LET delta == TSub(InstantOf(req.value.end), InstantOf(req.value.begin))
        IN  /\ IF UnitOf(req.unit) = "unrecognized" THEN res = ValueError
               ELSE res = Scaled(delta, UnitOf(req.unit))
            /\ C21_Antisymmetric

\* A plain "now" read follows another, both while no scope is active and with
\* no other operation between them (the host clock may have advanced).
SuccessiveLiveReads ==
    /\ lastOp.op = "read" /\ lastOp.pre = "main" /\ lastOp.m = 0
    /\ lastOp'.op = "read" /\ lastOp'.pre = "main" /\ lastOp'.m = 0
    /\ NotAfter(lastOp.at, lastOp'.at)

\* C22: outside a frozen scope, the host clock never going backward,
\* successive "now" reads never go backward, whichever accessors (string,
\* datetime, epoch float or wire timestamp) they are made through.
C22_LiveReadsMonotonic ==
    [][SuccessiveLiveReads => NotAfter(lastOp.val, lastOp'.val)]_vars

FullDayAhead == <<"+", "2", "4", ":", "0", "0">>

FullDayBehind == <<"-", "2", "4", ":", "0", "0">>

\* as_date_string was called with the tz on a value that names an instant.
CalledAsDateString(tz) ==
    /\ req # NoReq /\ req.fn = "as_date_string" /\ req.tz = tz
    /\ AsDateString(req.value.of, <<>>, main, clock).kind = "date"

\* The instant as_date_string was called on.
DateInstant ==
    IF req.value.of.tag = "now" THEN SyncTime(main, clock)
    ELSE ConvertValue("as_datetime", req.value.of, T(0, 0)).val

\* The last microsecond of a day, as a time of day.
LastOfDay == TSub(T(SecPerDay, 0), T(0, NsPerUs))

TimeOfDay(t) == T(t.s % SecPerDay, t.n)

Returns == req' # NoReq /\ <<req, res>>' # <<req, res>>

\* What the conversion that returns would return with no cache.
Uncached == Convert(req'.fn, req'.value, req'.modifier, main, clock)

\* No caller has modified a message that the cache holds.
NothingModified ==
    \A k \in DOMAIN memo.protobuf : memo.protobuf[k] = UnixtimeToProtobuf(k)

\* The part of C24 without callers that modify what they were returned.
C24_TransparentUnlessModified ==
    [][(Returns /\ NothingModified) => res' = Uncached]_vars

\* C24: memoization never changes an observable result: for every sequence
\* of calls, interleaved with host-clock advance, scope entry and exit, cache
\* eviction and callers modifying previously returned values in place, each
\* call returns what an uncached implementation would return, and a "now"
\* read is never served from a cache.
C24_MemoizationTransparent == [][Returns => res' = Uncached]_vars

\* The children that are pending in the state (mn, ch): constructed, not
\* entered and still the one the main synchronizer would hand its scope to.
PendingIn(mn, ch) == {c \in Children : StatusIn(c, mn, ch) = "pending"}

\* A child is constructed through the main synchronizer in this step.
Constructs ==
    /\ lastOp'.op = "call" /\ lastOp'.out = "ok"
    /\ child' # child

\* The main synchronizer itself is entered in this step.
EntersMain ==
    /\ lastOp'.op = "enter" /\ lastOp'.who = Main /\ lastOp'.out = "ok"
    /\ main' # main

\* C25: at most one child is pending at a time: constructing a new child
\* through the main synchronizer expires the child that was pending, at
\* once and before the new child is entered, and entering the main
\* synchronizer itself expires a pending child as well.
C25_OnePending ==
    /\ [](Cardinality(PendingIn(main, child)) <= 1)
    /\ [][/\ Constructs =>
                 /\ \A c \in PendingIn(main, child) :
                        StatusIn(c, main', child') = "expired"
                 /\ \E c \in Children :
                        /\ ~child[c].made
                        /\ PendingIn(main', child') = {c}
          /\ EntersMain =>
                 /\ \A c \in PendingIn(main, child) :
                        StatusIn(c, main', child') = "expired"
                 /\ PendingIn(main', child') = {}]_vars

\* A second child has just been constructed and is pending; the first one,
\* which was never entered, is expired.
C25_Witness ==
    \E a \in Made, b \in Made :
        /\ a # b /\ ~child[a].frozen /\ Status(a) = "expired"
        /\ Status(b) = "pending"
        /\ lastOp.op = "call" /\ lastOp.out = "ok" /\ lastOp.pre = "main"

\* C26: an operation of the synchronizer that raises RuntimeError (a
\* construction or an entry while a scope is active, the entry of a
\* deactivated or expired child, a call of a child handle) leaves the state
\* as it was: the frozen flag, the frozen instant, the child that owns the
\* scope and the child that is pending.
C26_RuntimeErrorKeepsState ==
    [][(lastOp'.out = "RuntimeError" /\ lastOp'.op \in {"call", "enter"}) =>
           /\ main' = main
           /\ child' = child
           /\ \A h \in Handles :
                  StatusIn(h, main', child') = StatusIn(h, main, child)]_vars

\* A child handle has just been called and raised RuntimeError, and the
\* child that was pending is pending still.
C26_Witness ==
    /\ lastOp.out = "RuntimeError"
    /\ lastOp.op = "call" /\ lastOp.who \in Children
    /\ \E c \in Made : Status(c) = "pending"

\* C27: a construction of a child that raises ValueError (a value that is no
\* timestamp) leaves the state of the synchronizer as it was: a child that
\* was pending is still pending and can be entered.
C27_ValueErrorKeepsState ==
    [][(lastOp'.op = "call" /\ lastOp'.out = "ValueError") =>
           /\ main' = main
           /\ child' = child
           /\ \A c \in PendingIn(main, child) :
                  /\ StatusIn(c, main', child') = "pending"
                  /\ EnterResult(c, main', child', clock').out = "ok"]_vars

\* C28: every entry of the main synchronizer itself freezes a sample of the
\* host clock taken at that entry, whatever scopes were entered and left and
\* whatever children were constructed and never entered before: the frozen
\* instant is not the candidate of such a child nor that of an earlier
\* scope.
C28_MainEntrySamples ==
    [][EntersMain =>
           /\ main'.frozen /\ main'.controller = None
           /\ main'.time_ns = TimeNsNow(clock)
           /\ main'.datetime = DatetimeFromTimeNs(TimeNsNow(clock))]_vars

\* The main synchronizer has just been entered and is frozen at the clock's
\* sample, after a scope of one child at another instant and with another
\* child, of yet another candidate, constructed and never entered.
C28_Witness ==
    /\ lastOp.op = "enter" /\ lastOp.who = Main /\ lastOp.out = "ok"
    /\ main.frozen /\ main.time_ns = TimeNsNow(clock)
    /\ \E a \in Made, b \in Made :
           /\ Status(a) = "deactivated" /\ child[a].args.instant # main.time_ns
           /\ Status(b) = "expired" /\ ~child[b].frozen
           /\ child[b].args.instant # main.time_ns

\* C29: timediff does not leave the clock frozen: called while no scope is
\* active, it leaves the singleton unfrozen when it returns and also when
\* it raises, because an endpoint is no timestamp or the unit is unknown.
C29_TimediffLeavesUnfrozen ==
    [][(lastOp'.op = "timediff" /\ ~main.frozen) => ~main'.frozen]_vars

\* timediff was called with an endpoint that is no timestamp while a child
\* was pending, raised ValueError, and no scope is active.
C29_Witness ==
    /\ lastOp.op = "timediff" /\ lastOp.out = "ValueError"
    /\ lastOp.pre = "pending" /\ "bad" \in {lastOp.b.tag, lastOp.e.tag}
    /\ ~main.frozen

\* Thread t has left its call of timediff, by a return or by an exception.
Left(t) == thread[t].pc = "done"

\* Once both calls have been left, the singleton is unfrozen.
UnfrozenAtEnd == (\A t \in Threads : Left(t)) => ~main.frozen

\* C30: two threads call timediff("now", "now") while no scope is active:
\* however their steps interleave, a call that was left has returned and
\* not raised RuntimeError, its result is the difference of one clock
\* reading with itself, which is zero, and the singleton is unfrozen once
\* both calls have been left.
C30_ThreadsTimediff ==
    /\ \A t \in Threads :
          Left(t) => thread[t].out = "ok" /\ thread[t].val = T(0, 0)
    /\ UnfrozenAtEnd

====
